---- MODULE Spec2Model ----
(***************************************************************************)
(* Session coordinator (initialize / waitFor ... TestSession) and cookie   *)
(* credential interceptor of the gregori-api-tests suite.                  *)
(*                                                                         *)
(* Two coordinator implementations are modelled:                           *)
(*   "IS"  - src/src/utils/integration-session.ts                          *)
(*   "P12" - src/unnamed/part_012                                          *)
(* over two interceptor implementations:                                   *)
(*   "ACA" - src/src/utils/axios-cookie-auth.ts (general/admin store)      *)
(*   "P13" - src/unnamed/part_013 (single cookie, response handler)        *)
(* Strings the code splits, trims or parses are sequences of one-character *)
(* strings; opaque strings (emails, passwords) are TLA+ strings.           *)
(***************************************************************************)
EXTENDS Naturals, Integers, Sequences, FiniteSets, TLC

\* ------------------------------------------------------------------ bounds
NCallers == 2

Callers == 1..NCallers

\* null / undefined of an opaque string (email, password, name)
NULL == "null"

\* null / undefined of a string held as a sequence of characters: no
\* character is the four-letter string, so no real string equals it
NoStr == <<"null">>

\* null / undefined of a number (ids are naturals)
NoId == -1

Kinds == {"general", "admin"}

\* --------------------------------------------------------- string helpers
\* s.indexOf(ch) from position i on (0 when absent).
RECURSIVE IndexFrom(_, _, _)
IndexFrom(s, ch, i) ==
  IF i > Len(s) THEN 0
  ELSE IF s[i] = ch THEN i
  ELSE IndexFrom(s, ch, i + 1)

\* String.prototype.split(";") : always at least one part.
RECURSIVE Split(_, _)
Split(s, ch) ==
  LET i == IndexFrom(s, ch, 1)
  IN  IF i = 0 THEN <<s>>
      ELSE <<SubSeq(s, 1, i - 1)>> \o Split(SubSeq(s, i + 1, Len(s)), ch)

RECURSIVE TrimLeft(_)
TrimLeft(s) ==
  IF s # <<>> /\ Head(s) = " " THEN TrimLeft(Tail(s)) ELSE s

RECURSIVE TrimRight(_)
TrimRight(s) ==
  IF s # <<>> /\ s[Len(s)] = " " THEN TrimRight(SubSeq(s, 1, Len(s) - 1)) ELSE s

\* String.prototype.trim()
Trim(s) == TrimRight(TrimLeft(s))

\* Array.prototype.join(sep)
RECURSIVE Join(_, _)
Join(parts, sep) ==
  IF parts = <<>> THEN <<>>
  ELSE IF Len(parts) = 1 THEN parts[1]
  ELSE parts[1] \o sep \o Join(Tail(parts), sep)

StartsWithAt(s, sub, i) ==
  /\ i + Len(sub) - 1 <= Len(s)
  /\ SubSeq(s, i, i + Len(sub) - 1) = sub

\* String.prototype.includes(sub)
Includes(s, sub) == \E i \in 1..(Len(s) + 1) : StartsWithAt(s, sub, i)

DigitChars == <<"0", "1", "2", "3", "4", "5", "6", "7", "8", "9">>

IsDigit(ch) == \E d \in 1..10 : DigitChars[d] = ch

DigitValue(ch) == (CHOOSE d \in 1..10 : DigitChars[d] = ch) - 1

\* the maximal run of digits of s starting at position i
RECURSIVE DigitRun(_, _)
DigitRun(s, i) ==
  IF i <= Len(s) /\ IsDigit(s[i]) THEN <<s[i]>> \o DigitRun(s, i + 1) ELSE <<>>

RECURSIVE DigitsToNat(_, _)
DigitsToNat(ds, acc) ==
  IF ds = <<>> THEN acc ELSE DigitsToNat(Tail(ds), acc * 10 + DigitValue(Head(ds)))

\* parseInt(s, 10) on a string of the environment (NaN is left out: the
\* member id variable holds digits when it is set)
ParseInt(s) ==
  LET t == TrimLeft(s)
      ds == DigitRun(t, 1)
  IN  IF ds = <<>> THEN NoId ELSE DigitsToNat(ds, 0)

\* String(n) for a natural number
RECURSIVE NatToStr(_)
NatToStr(n) ==
  IF n < 10 THEN <<DigitChars[n + 1]>>
  ELSE NatToStr(n \div 10) \o <<DigitChars[(n % 10) + 1]>>

\* JavaScript truthiness of a string-or-null held as characters
TruthyStr(s) == s # NoStr /\ s # <<>>

\* JavaScript truthiness of an opaque string-or-null
TruthyTok(t) == t # NULL /\ t # ""

\* JavaScript truthiness of a number-or-null
TruthyId(n) == n # NoId /\ n # 0

MemberPrefix == <<"/", "m", "e", "m", "b", "e", "r", "/">>

\* location.match(/\/member\/(\d+)/) followed by parseInt(match[1], 10);
\* NoId when the pattern does not match.
MatchMemberId(location) ==
  LET hits == {i \in 1..Len(location) :
                 /\ StartsWithAt(location, MemberPrefix, i)
                 /\ DigitRun(location, i + Len(MemberPrefix)) # <<>>}
  IN  IF hits = {} THEN NoId
      ELSE LET i == CHOOSE j \in hits : \A h \in hits : j <= h
           IN  DigitsToNat(DigitRun(location, i + Len(MemberPrefix)), 0)

\* ------------------------------------------------- issuance header values
\* A set-cookie header value is undefined, one string or an array of strings.
NoHeader == [form |-> "none", vals |-> <<>>]
StrHeader(s) == [form |-> "string", vals |-> <<s>>]
ArrHeader(ss) == [form |-> "array", vals |-> ss]

\* JavaScript truthiness of a header value (an array, also [], is truthy)
HeaderTruthy(h) ==
  \/ h.form = "array"
  \/ h.form = "string" /\ h.vals[1] # <<>>

\* headers?.["set-cookie"] || headers?.["Set-Cookie"]
HeaderOr(headers) ==
  IF HeaderTruthy(headers.lower) THEN headers.lower ELSE headers.upper

\* headers?.["set-cookie"] ?? headers?.["Set-Cookie"]
HeaderNullish(headers) ==
  IF headers.lower.form # "none" THEN headers.lower ELSE headers.upper

\* cookie.split(";")[0].trim() of every value, in order
RECURSIVE NameValues(_)
NameValues(cookies) ==
  IF cookies = <<>> THEN <<>>
  ELSE <<Trim(Split(Head(cookies), ";")[1])>> \o NameValues(Tail(cookies))

RECURSIVE NonEmpty(_)
NonEmpty(ss) ==
  IF ss = <<>> THEN <<>>
  ELSE IF Head(ss) # <<>> THEN <<Head(ss)>> \o NonEmpty(Tail(ss))
  ELSE NonEmpty(Tail(ss))

\* integration-session.ts: the first non-empty name=value, or null
extractSessionCookie(h) ==
  IF ~HeaderTruthy(h) THEN NoStr
  ELSE LET nvs == NonEmpty(NameValues(h.vals))
       IN  IF nvs = <<>> THEN NoStr ELSE nvs[1]

\* axios-cookie-auth.ts and part_013: every non-empty name=value joined
\* with "; ", or null
extractCookieValue(h) ==
  IF ~HeaderTruthy(h) THEN NoStr
  ELSE LET nvs == NonEmpty(NameValues(h.vals))
       IN  IF nvs = <<>> THEN NoStr ELSE Join(nvs, <<";", " ">>)

PathAttr == <<"P", "a", "t", "h", "=">>
HttpOnlyAttr == <<"H", "t", "t", "p", "O", "n", "l", "y">>
SecureAttr == <<"S", "e", "c", "u", "r", "e">>

\* formatCookieHeader (same in both interceptors)
formatCookieHeader(cookie) ==
  LET looksLikeSetCookie ==
        \/ Includes(cookie, PathAttr)
        \/ Includes(cookie, HttpOnlyAttr)
        \/ Includes(cookie, SecureAttr)
      extracted == extractCookieValue(StrHeader(cookie))
  IN  IF ~looksLikeSetCookie THEN cookie
      ELSE IF TruthyStr(extracted) THEN extracted ELSE cookie

\* ------------------------------------------------------------ test inputs
\* the name=value pair the sign-in collaborator issues to each identity
IssuedCookie(k) == IF k = "general" THEN <<"g", "=", "1">> ELSE <<"a", "=", "1">>

CookieAttrs == <<";", " ", "P", "a", "t", "h", "=", "/", ";", " ", "H", "t", "t", "p", "O", "n", "l", "y">>

OtherCookie == <<"x", "=", "2", ";", " ", "S", "e", "c", "u", "r", "e">>

\* a pre-supplied session cookie of the environment
PresetCookie == <<"p", "=", "0">>

MemberIdStr == <<"7">>

MemberLocation == <<"/", "m", "e", "m", "b", "e", "r", "/", "7">>

OtherLocation == <<"/", "m", "e", "m", "b", "e", "r", "s">>

\* set-cookie headers of a sign-in response for identity k
SetCookieHeaders(k) ==
  { [lower |-> NoHeader, upper |-> NoHeader],
    [lower |-> ArrHeader(<<>>), upper |-> NoHeader],
    [lower |-> ArrHeader(<<IssuedCookie(k) \o CookieAttrs>>), upper |-> NoHeader],
    [lower |-> ArrHeader(<<IssuedCookie(k) \o CookieAttrs, OtherCookie>>), upper |-> NoHeader],
    [lower |-> NoHeader, upper |-> StrHeader(IssuedCookie(k))] }

NoBody == [present |-> FALSE, dataId |-> NoId, sessionMemberId |-> NoId, id |-> NoId]

\* response bodies: none, {data: {id}}, {sessionMember: {id}}, {id}
Bodies ==
  { NoBody,
    [present |-> TRUE, dataId |-> 7, sessionMemberId |-> NoId, id |-> NoId],
    [present |-> TRUE, dataId |-> NoId, sessionMemberId |-> 7, id |-> NoId],
    [present |-> TRUE, dataId |-> NoId, sessionMemberId |-> NoId, id |-> NoId] }

\* what the sign-in collaborator can answer: the call is rejected (network
\* error or a status axios rejects), or resolves with a status; every header
\* shape comes without a body, every body shape with the plain header
SignInResponses(k) ==
  { [type |-> "reject", status |-> 401,
     headers |-> [lower |-> NoHeader, upper |-> NoHeader], body |-> NoBody],
    [type |-> "resolve", status |-> 204,
     headers |-> [lower |-> NoHeader, upper |-> NoHeader], body |-> NoBody] }
  \cup
  { [type |-> "resolve", status |-> 200, headers |-> h, body |-> NoBody] :
      h \in SetCookieHeaders(k) }
  \cup
  { [type |-> "resolve", status |-> 200,
     headers |-> [lower |-> ArrHeader(<<IssuedCookie(k) \o CookieAttrs>>), upper |-> NoHeader],
     body |-> b] : b \in Bodies }

\* what the registration collaborator can answer
RegisterResponses ==
  { [type |-> "reject", status |-> 409, hasData |-> FALSE, dataId |-> NoId, location |-> NoStr],
    [type |-> "reject", status |-> 500, hasData |-> FALSE, dataId |-> NoId, location |-> NoStr],
    [type |-> "resolve", status |-> 201, hasData |-> FALSE, dataId |-> NoId, location |-> MemberLocation],
    [type |-> "resolve", status |-> 201, hasData |-> TRUE, dataId |-> 7, location |-> NoStr],
    [type |-> "resolve", status |-> 201, hasData |-> TRUE, dataId |-> NoId, location |-> MemberLocation],
    [type |-> "resolve", status |-> 201, hasData |-> FALSE, dataId |-> NoId, location |-> OtherLocation],
    [type |-> "resolve", status |-> 201, hasData |-> FALSE, dataId |-> NoId, location |-> NoStr],
    [type |-> "resolve", status |-> 200, hasData |-> FALSE, dataId |-> NoId, location |-> MemberLocation] }

\* what getMember can answer (part_012): an id, no id, or a rejection
GetMemberResponses ==
  { [type |-> "reject", id |-> NoId],
    [type |-> "resolve", id |-> NoId],
    [type |-> "resolve", id |-> 7] }

\* --------------------------------------------------------------- the state
VARIABLES
  coord,            \* coordinator implementation in use: "IS" or "P12"
  icpt,             \* interceptor implementation in use: "ACA" or "P13"
  enabled,          \* INTEGRATION_TEST_ENABLED / isIntegrationEnabled()
  env,              \* process.env
  promise,          \* globalSessionInitialized / adminSessionInitialized
  acq,              \* position of each identity's acquisition task
  account,          \* globalTest* / adminTest* variables of integration-session.ts
  shared,           \* sharedTestAccount of integration-helpers
  store,            \* sessionCookies, defaultSessionKind (ACA); sessionCookie (P13)
  pc,               \* position of each caller
  call,             \* the coordinator function each caller called, and the
                    \* state of the readiness promise it found
  outcome,          \* how each caller's call settled
  signInCalls,      \* api.signIn calls issued per identity
  registerCalls,    \* api.register calls issued per identity
  getMemberCalls,   \* api.getMember calls issued per identity
  errSeq,           \* number of Error objects created so far
  req,              \* the call inside the interceptor of axios-cookie-auth.ts
  sent,             \* what the interceptor handed to the transport for it
  transport,        \* what is installed on the axios instance: request
                    \* interceptors, proxy layers around its methods
  setup,            \* position of setup() of the integration bootstrap
  calc              \* a call of a credential-extraction helper: the helper,
                    \* its argument and what it returned

vars == <<coord, icpt, enabled, env, promise, acq, account, shared, store,
          pc, call, outcome, signInCalls, registerCalls, getMemberCalls, errSeq,
          req, sent, transport, setup, calc>>

NoError == [id |-> 0, msg |-> "none"]

NoAccount == [email |-> NULL, password |-> NULL, memberId |-> NoId]

NoCall == [fn |-> "none", kind |-> "none", found |-> "none"]

EnvBase ==
  [ SESSION_COOKIE |-> NoStr,
    INTEGRATION_TEST_EMAIL |-> NULL,
    INTEGRATION_TEST_PASSWORD |-> NULL,
    INTEGRATION_TEST_MEMBER_ID |-> NoStr,
    ADMIN_TEST_EMAIL |-> NULL,
    ADMIN_TEST_PASSWORD |-> NULL,
    ADMIN_SESSION_COOKIE |-> NoStr,
    GENERAL_MEMBER_SESSION_COOKIE |-> NoStr,
    ADMIN_MEMBER_SESSION_COOKIE |-> NoStr,
    TEST_GENERAL_MEMBER_EMAIL |-> NULL,
    TEST_GENERAL_MEMBER_PASSWORD |-> NULL,
    TEST_ADMIN_MEMBER_EMAIL |-> NULL,
    TEST_ADMIN_MEMBER_PASSWORD |-> NULL ]

\* environments of a run over integration-session.ts: nothing pre-set, a
\* session cookie alone, an account alone, a session cookie with its account
\* (with and without the member id); each with and without an admin password
EnvsIS ==
  { [EnvBase EXCEPT !.SESSION_COOKIE = g[1],
                    !.INTEGRATION_TEST_EMAIL = g[2],
                    !.INTEGRATION_TEST_PASSWORD = g[3],
                    !.INTEGRATION_TEST_MEMBER_ID = g[4],
                    !.ADMIN_TEST_PASSWORD = ap] :
      g \in { <<NoStr, NULL, NULL, NoStr>>,
              <<PresetCookie, NULL, NULL, NoStr>>,
              <<PresetCookie, "env@integration.test", NULL, NoStr>>,
              <<NoStr, "env@integration.test", "envpw", NoStr>>,
              <<PresetCookie, "env@integration.test", "envpw", NoStr>>,
              <<PresetCookie, "env@integration.test", "envpw", MemberIdStr>> },
      ap \in {NULL, "adminpw"} }

\* environments of a run over part_012
EnvsP12 ==
  { [EnvBase EXCEPT !.TEST_GENERAL_MEMBER_PASSWORD = gp,
                    !.TEST_ADMIN_MEMBER_PASSWORD = ap,
                    !.INTEGRATION_TEST_MEMBER_ID = mid] :
      gp \in {NULL, "generalpw"},
      ap \in {NULL, "adminpw"},
      mid \in {NoStr, MemberIdStr} }

\* headers of a call: `present` is FALSE for `headers: undefined`; kind is
\* the value under x-session-kind, skip the value under x-skip-auth, and
\* Cookie / cookie / COOKIE the values under these three keys (NoStr: key
\* absent, <<>>: the empty string)
AbsentHeaders ==
  [present |-> FALSE, kind |-> "absent", skip |-> "absent",
   Cookie |-> NoStr, cookie |-> NoStr, COOKIE |-> NoStr]

EmptyHeaders == [AbsentHeaders EXCEPT !.present = TRUE]

NoReq == [via |-> "none", url |-> NoStr, hasCfg |-> FALSE, headers |-> AbsentHeaders]

NoSent == [thrown |-> FALSE, url |-> NoStr, headers |-> AbsentHeaders]

\* no helper call
NoCalc == [fn |-> "none", arg |-> NoHeader, result |-> NoStr]

\* an axios instance on which nothing is installed: no request interceptor,
\* no COOKIE_AUTH_INSTALLED mark, no proxy around a method or around create
NoTransport ==
  [interceptors |-> 0,     \* request interceptors registered on the instance
   installed |-> FALSE,    \* instance[COOKIE_AUTH_INSTALLED]
   layers |-> 0,           \* proxies around each of get/post/put/delete/patch
   createLayers |-> 0,     \* proxies around create
   setups |-> 0,           \* calls of setupCookieAuth so far
   wraps |-> 0,            \* runs of wrapMockedAxiosCookieAuth so far
   decisions |-> 0,        \* credential decisions taken on the call in flight
   received |-> <<>>,      \* what the underlying method got for that call
   answer |-> "none",      \* how the underlying method settled it
   returned |-> "none"]    \* how the call settled for its caller

\* fallback credentials of axios-cookie-auth.ts in the environment
WithFallback(e, g, a) ==
  [e EXCEPT !.GENERAL_MEMBER_SESSION_COOKIE = g, !.ADMIN_MEMBER_SESSION_COOKIE = a]

Fallbacks == {<<NoStr, NoStr>>, <<PresetCookie, PresetCookie>>}

NoPromise == [state |-> "none", err |-> NoError]

NoAcq == [stage |-> "none", owner |-> 0, reg |-> "none"]

Init ==
  /\ coord \in {"IS", "P12"}
  /\ icpt \in {"ACA", "P13"}
  /\ coord = "P12" => icpt = "ACA"
  /\ enabled \in BOOLEAN
  /\ env \in IF coord = "IS"
             THEN IF icpt = "ACA"
                  THEN {WithFallback(e, f[1], f[2]) : e \in EnvsIS, f \in Fallbacks}
                  ELSE EnvsIS
             ELSE {WithFallback(e, f[1], f[2]) : e \in EnvsP12, f \in Fallbacks}
  /\ promise = [k \in Kinds |-> NoPromise]
  /\ acq = [k \in Kinds |-> NoAcq]
  /\ account = [k \in Kinds |-> NoAccount]
  /\ shared = NoAccount
  /\ store = [general |-> NoStr, admin |-> NoStr,
              defaultSessionKind |-> "general", sessionCookie |-> NoStr]
  /\ pc = [c \in Callers |-> "idle"]
  /\ call = [c \in Callers |-> NoCall]
  /\ outcome = [c \in Callers |-> [ok |-> FALSE, err |-> NoError]]
  /\ signInCalls = [k \in Kinds |-> 0]
  /\ registerCalls = [k \in Kinds |-> 0]
  /\ getMemberCalls = [k \in Kinds |-> 0]
  /\ errSeq = 0
  /\ req = NoReq
  /\ sent = NoSent
  /\ transport = NoTransport
  /\ setup = "none"
  /\ calc = NoCalc

\* ------------------------------------------------ credential interceptors
\* axios-cookie-auth.ts
ACA_setSessionCookie(st, cookie) ==
  [st EXCEPT !.general = cookie, !.defaultSessionKind = "general"]

setGeneralSessionCookie(st, cookie) == [st EXCEPT !.general = cookie]

setAdminSessionCookie(st, cookie) == [st EXCEPT !.admin = cookie]

\* mutant: a null identity resolves to the general credential
getCookieForKindNullIsGeneral(st, e, kind) ==
  IF kind = "admin"
  THEN IF st.admin # NoStr THEN st.admin ELSE e.ADMIN_MEMBER_SESSION_COOKIE
  ELSE IF st.general # NoStr THEN st.general ELSE e.GENERAL_MEMBER_SESSION_COOKIE

getCookieForKind(st, e, kind) ==
  IF kind = NULL THEN NoStr
  ELSE IF kind = "admin"
       THEN IF st.admin # NoStr THEN st.admin ELSE e.ADMIN_MEMBER_SESSION_COOKIE
       ELSE IF st.general # NoStr THEN st.general ELSE e.GENERAL_MEMBER_SESSION_COOKIE

\* kind is NULL when the caller passes none
getCookie(st, e, kind) ==
  getCookieForKind(st, e, IF kind # NULL THEN kind ELSE st.defaultSessionKind)

\* part_013
P13_setSessionCookie(st, cookie) == [st EXCEPT !.sessionCookie = cookie]

P13_getCookie(st, e) ==
  IF TruthyStr(st.sessionCookie) THEN st.sessionCookie
  ELSE IF TruthyStr(e.SESSION_COOKIE) THEN e.SESSION_COOKIE ELSE NoStr

\* part_013: the response handler, for a response of a call to /auth/signin
P13_onSignInResponse(st, resp) ==
  LET h == HeaderOr(resp.headers)
      v == extractCookieValue(h)
  IN  IF resp.type = "resolve" /\ resp.status = 200 /\ HeaderTruthy(h) /\ TruthyStr(v)
      THEN [st EXCEPT !.sessionCookie = v]
      ELSE st

\* the setSessionCookie the coordinator imports from "./axios-cookie-auth"
setSessionCookie(st, cookie) ==
  IF icpt = "ACA" THEN ACA_setSessionCookie(st, cookie)
  ELSE P13_setSessionCookie(st, cookie)

\* the response interceptor setupCookieAuth installs, on a sign-in response
onSignInResponse(st, resp) ==
  IF icpt = "ACA" THEN st ELSE P13_onSignInResponse(st, resp)

\* ------------------------------------------------------ caller bookkeeping
\* callers are interchangeable: they start in the order of their ids
StartsInOrder(c) == \A d \in Callers : d < c => pc[d] # "idle"

Ok == [ok |-> TRUE, err |-> NoError]

Rejected(e) == [ok |-> FALSE, err |-> e]

\* mutant: the readiness promise is never found
HasPromiseNever(k) == FALSE

\* `if (globalSessionInitialized)` / `if (adminSessionInitialized)`
HasPromise(k) == promise[k].state # "none"

\* the call returns at once
Return(c) ==
  /\ pc' = [pc EXCEPT ![c] = "done"]
  /\ outcome' = [outcome EXCEPT ![c] = Ok]

\* `await globalSessionInitialized`: the caller suspends on the promise
Await(c) ==
  /\ pc' = [pc EXCEPT ![c] = "joined"]
  /\ UNCHANGED outcome

\* a caller suspended on the promise of its identity resumes once it settled
Resume(c) ==
  /\ pc[c] = "joined"
  /\ promise[call[c].kind].state \in {"resolved", "rejected"}
  /\ pc' = [pc EXCEPT ![c] = "done"]
  /\ outcome' = [outcome EXCEPT ![c] =
        IF promise[call[c].kind].state = "resolved" THEN Ok
        ELSE Rejected(promise[call[c].kind].err)]
  /\ UNCHANGED <<calc, setup, transport, req, sent, coord, icpt, enabled, env, promise, acq, account, shared, store,
                 call, signInCalls, registerCalls, getMemberCalls, errSeq>>

\* ------------------------------ coordinator of integration-session.ts (IS)
FreshEmail == "integration-fresh@integration.test"

\* loadAccountFromEnvironment: NoAccount stands for its null result
loadAccountFromEnvironment(e) ==
  IF ~TruthyTok(e.INTEGRATION_TEST_EMAIL) \/ ~TruthyTok(e.INTEGRATION_TEST_PASSWORD)
  THEN NoAccount
  ELSE [email |-> e.INTEGRATION_TEST_EMAIL,
        password |-> e.INTEGRATION_TEST_PASSWORD,
        memberId |-> IF TruthyStr(e.INTEGRATION_TEST_MEMBER_ID)
                     THEN ParseInt(e.INTEGRATION_TEST_MEMBER_ID) ELSE NoId]

\* loadAdminAccountFromEnvironment: defaults replace absent values
loadAdminAccountFromEnvironment(e, old) ==
  [email |-> IF TruthyTok(e.ADMIN_TEST_EMAIL) THEN e.ADMIN_TEST_EMAIL
             ELSE "admin@integration.test",
   password |-> IF TruthyTok(e.ADMIN_TEST_PASSWORD) THEN e.ADMIN_TEST_PASSWORD
                ELSE "aa11111!",
   memberId |-> old.memberId]

\* mutant: no acquisition registers
RegistersNever(k) == FALSE

\* mutant: every acquisition registers
RegistersAlways(k) == TRUE

\* which acquisition of integration-session.ts registers an account before
\* it signs in: the general one calls createNewTestAccount, the admin one
\* does not
RegistersFirst(k) == k = "general"

\* mutant: the `finally` block leaves the readiness promise pending
IS_FinallyPending(k) == [state |-> "pending", err |-> NoError]

\* the `finally` block: the readiness promise is resolved on every exit
IS_Finally(k) == [state |-> "resolved", err |-> NoError]

\* the acquisition of k throws: catch, rethrow, finally
IS_Throw(k, msg, reg) ==
  LET c == acq[k].owner
      e == [id |-> errSeq + 1, msg |-> msg]
  IN  /\ errSeq' = errSeq + 1
      /\ promise' = [promise EXCEPT ![k] = IS_Finally(k)]
      /\ acq' = [acq EXCEPT ![k].stage = "failed", ![k].reg = reg]
      /\ pc' = [pc EXCEPT ![c] = "done"]
      /\ outcome' = [outcome EXCEPT ![c] = Rejected(e)]

\* the acquisition of k ends normally
IS_Complete(k) ==
  LET c == acq[k].owner
  IN  /\ promise' = [promise EXCEPT ![k] = IS_Finally(k)]
      /\ acq' = [acq EXCEPT ![k].stage = "ok"]
      /\ pc' = [pc EXCEPT ![c] = "done"]
      /\ outcome' = [outcome EXCEPT ![c] = Ok]
      /\ UNCHANGED errSeq

\* the first collaborator call of the acquisition of k, issued by caller c
IS_Begin(c, k) ==
  /\ promise' = [promise EXCEPT ![k] = [state |-> "pending", err |-> NoError]]
  /\ pc' = [pc EXCEPT ![c] = "owner"]
  /\ IF RegistersFirst(k)
     THEN /\ registerCalls' = [registerCalls EXCEPT ![k] = @ + 1]
          /\ acq' = [acq EXCEPT ![k] = [stage |-> "register", owner |-> c, reg |-> "none"]]
          /\ UNCHANGED signInCalls
     ELSE /\ signInCalls' = [signInCalls EXCEPT ![k] = @ + 1]
          /\ acq' = [acq EXCEPT ![k] = [stage |-> "signin", owner |-> c, reg |-> "none"]]
          /\ UNCHANGED registerCalls
  /\ UNCHANGED <<outcome, errSeq, getMemberCalls>>

\* body of initializeGlobalTestSession, run by caller c
IS_InitializeGlobal(c) ==
  IF ~enabled
  THEN /\ Return(c)
       /\ UNCHANGED <<env, promise, acq, account, shared, store,
                      signInCalls, registerCalls, getMemberCalls, errSeq>>
  ELSE IF HasPromise("general")
  THEN /\ Await(c)
       /\ UNCHANGED <<env, promise, acq, account, shared, store,
                      signInCalls, registerCalls, getMemberCalls, errSeq>>
  ELSE IF TruthyStr(env.SESSION_COOKIE) /\ loadAccountFromEnvironment(env) # NoAccount
  THEN \* the session of the environment is taken over: no collaborator call
       /\ account' = [account EXCEPT !["general"] = loadAccountFromEnvironment(env)]
       /\ shared' = loadAccountFromEnvironment(env)
       /\ store' = setSessionCookie(store, env.SESSION_COOKIE)
       /\ promise' = [promise EXCEPT !["general"] = IS_Finally("general")]
       /\ acq' = [acq EXCEPT !["general"] = [stage |-> "ok", owner |-> c, reg |-> "none"]]
       /\ Return(c)
       /\ UNCHANGED <<env, signInCalls, registerCalls, getMemberCalls, errSeq>>
  ELSE \* createNewTestAccount up to `await api.register(...)`
       /\ account' = [account EXCEPT !["general"] =
                        [email |-> FreshEmail, password |-> "Test123!@",
                         memberId |-> account["general"].memberId]]
       /\ IS_Begin(c, "general")
       /\ UNCHANGED <<env, shared, store>>

\* body of initializeAdminTestSession, run by caller c
IS_InitializeAdmin(c) ==
  IF ~enabled
  THEN /\ Return(c)
       /\ UNCHANGED <<env, promise, acq, account, shared, store,
                      signInCalls, registerCalls, getMemberCalls, errSeq>>
  ELSE IF HasPromise("admin")
  THEN /\ Await(c)
       /\ UNCHANGED <<env, promise, acq, account, shared, store,
                      signInCalls, registerCalls, getMemberCalls, errSeq>>
  ELSE \* loadAdminAccountFromEnvironment, then up to `await api.signIn(...)`
       /\ account' = [account EXCEPT !["admin"] =
                        loadAdminAccountFromEnvironment(env, account["admin"])]
       /\ IS_Begin(c, "admin")
       /\ UNCHANGED <<env, shared, store>>

initializeGlobalTestSession(c) ==
  /\ coord = "IS" /\ pc[c] = "idle" /\ StartsInOrder(c)
  /\ call' = [call EXCEPT ![c] = [fn |-> "initialize", kind |-> "general",
                                   found |-> promise["general"].state]]
  /\ IS_InitializeGlobal(c)
  /\ UNCHANGED <<calc, setup, transport, req, sent, coord, icpt, enabled>>

initializeAdminTestSession(c) ==
  /\ coord = "IS" /\ pc[c] = "idle" /\ StartsInOrder(c)
  /\ call' = [call EXCEPT ![c] = [fn |-> "initialize", kind |-> "admin",
                                   found |-> promise["admin"].state]]
  /\ IS_InitializeAdmin(c)
  /\ UNCHANGED <<calc, setup, transport, req, sent, coord, icpt, enabled>>

waitForGlobalSession(c) ==
  /\ coord = "IS" /\ pc[c] = "idle" /\ StartsInOrder(c)
  /\ call' = [call EXCEPT ![c] = [fn |-> "wait", kind |-> "general",
                                   found |-> promise["general"].state]]
  /\ IF HasPromise("general")
     THEN /\ Await(c)
          /\ UNCHANGED <<env, promise, acq, account, shared, store,
                         signInCalls, registerCalls, getMemberCalls, errSeq>>
     ELSE IS_InitializeGlobal(c)
  /\ UNCHANGED <<calc, setup, transport, req, sent, coord, icpt, enabled>>

\* waitForAdminSession has no else branch: without a promise it returns
waitForAdminSession(c) ==
  /\ coord = "IS" /\ pc[c] = "idle" /\ StartsInOrder(c)
  /\ call' = [call EXCEPT ![c] = [fn |-> "wait", kind |-> "admin",
                                   found |-> promise["admin"].state]]
  /\ IF HasPromise("admin") THEN Await(c) ELSE Return(c)
  /\ UNCHANGED <<calc, setup, transport, req, sent, coord, icpt, enabled, env, promise, acq, account, shared, store,
                 signInCalls, registerCalls, getMemberCalls, errSeq>>

\* mutant: the Location header of the answer is not read
MemberIdAfterRegisterBodyOnly(old, resp) ==
  IF resp.hasData
  THEN (IF TruthyId(resp.dataId) THEN resp.dataId ELSE NoId)
  ELSE old

\* globalTestMemberId after a resolved api.register response
MemberIdAfterRegister(old, resp) ==
  LET fromData == IF resp.hasData
                  THEN (IF TruthyId(resp.dataId) THEN resp.dataId ELSE NoId)
                  ELSE old
      fromLocation == IF TruthyStr(resp.location) THEN MatchMemberId(resp.location)
                      ELSE NoId
  IN  IF ~TruthyId(fromData) /\ resp.status = 201 /\ fromLocation # NoId
      THEN fromLocation
      ELSE fromData

\* A successful registration answer is well formed when it is a 201 that
\* names the created member: by a positive id in the body or by a Location
\* header of the form /member/<digits>.
WellFormedRegistration(resp) ==
  /\ resp.type = "resolve"
  /\ resp.status = 201
  /\ \/ resp.hasData /\ resp.dataId # NoId /\ resp.dataId > 0
     \/ /\ resp.location # NoStr
        /\ \E i \in 1..Len(resp.location) :
              /\ StartsWithAt(resp.location, MemberPrefix, i)
              /\ i + Len(MemberPrefix) <= Len(resp.location)
              /\ IsDigit(resp.location[i + Len(MemberPrefix)])

\* how the registration of the acquisition went
RegistrationOutcome(resp) ==
  IF resp.type = "reject" THEN (IF resp.status = 409 THEN "conflict" ELSE "failed")
  ELSE IF WellFormedRegistration(resp) THEN "created"
  ELSE "created-malformed"

\* createNewTestAccount from the answer of api.register on; on success or a
\* 409 conflict signInAndSaveSession follows up to `await api.signIn(...)`
createNewTestAccount(resp) ==
  /\ coord = "IS"
  /\ acq["general"].stage = "register"
  /\ IF resp.type = "resolve" \/ resp.status = 409
     THEN /\ account' = [account EXCEPT !["general"].memberId =
                IF resp.type = "resolve" THEN MemberIdAfterRegister(@, resp) ELSE @]
          /\ acq' = [acq EXCEPT !["general"].stage = "signin",
                                !["general"].reg = RegistrationOutcome(resp)]
          /\ signInCalls' = [signInCalls EXCEPT !["general"] = @ + 1]
          /\ UNCHANGED <<promise, pc, outcome, errSeq>>
     ELSE /\ IS_Throw("general", "register failed", RegistrationOutcome(resp))
          /\ UNCHANGED <<account, signInCalls>>
  /\ UNCHANGED <<calc, setup, transport, req, sent, coord, icpt, enabled, env, shared, store, call,
                 registerCalls, getMemberCalls>>

\* globalTestMemberId after a successful sign-in response
MemberIdAfterSignIn(old, body) ==
  IF ~TruthyId(old) /\ body.present
  THEN IF TruthyId(body.dataId) THEN body.dataId
       ELSE IF body.id # NoId THEN body.id
       ELSE old
  ELSE old

\* saveAccountToEnvironment and process.env.SESSION_COOKIE = sessionCookie
saveAccountToEnvironment(e, a, cookie) ==
  [e EXCEPT !.INTEGRATION_TEST_EMAIL = a.email,
            !.INTEGRATION_TEST_PASSWORD = a.password,
            !.INTEGRATION_TEST_MEMBER_ID =
                IF TruthyId(a.memberId) THEN NatToStr(a.memberId) ELSE @,
            !.SESSION_COOKIE = cookie]

\* signInAndSaveSession from the answer of api.signIn on
signInAndSaveSession(resp) ==
  LET st1 == onSignInResponse(store, resp)
      cookie == extractSessionCookie(HeaderOr(resp.headers))
      acct == [account["general"] EXCEPT !.memberId = MemberIdAfterSignIn(@, resp.body)]
  IN  /\ coord = "IS"
      /\ acq["general"].stage = "signin"
      /\ IF resp.type = "reject"
         THEN /\ IS_Throw("general", "sign-in rejected", acq["general"].reg)
              /\ store' = st1
              /\ UNCHANGED <<account, shared, env>>
         ELSE IF resp.status # 200
         THEN /\ IS_Throw("general", "sign-in status", acq["general"].reg)
              /\ store' = st1
              /\ UNCHANGED <<account, shared, env>>
         ELSE IF ~TruthyStr(cookie)
         THEN /\ IS_Throw("general", "no session cookie", acq["general"].reg)
              /\ store' = st1
              /\ UNCHANGED <<account, shared, env>>
         ELSE /\ store' = setSessionCookie(st1, cookie)
              /\ account' = [account EXCEPT !["general"] = acct]
              /\ shared' = acct
              /\ env' = saveAccountToEnvironment(env, acct, cookie)
              /\ IS_Complete("general")
      /\ UNCHANGED <<calc, setup, transport, req, sent, coord, icpt, enabled, call,
                     signInCalls, registerCalls, getMemberCalls>>

\* saveAdminAccountToEnvironment
saveAdminAccountToEnvironment(e, a) ==
  [e EXCEPT !.ADMIN_TEST_EMAIL = a.email,
            !.ADMIN_TEST_PASSWORD = a.password]

\* signInAdminAndSaveSession from the answer of api.signIn on; the cookie is
\* written to process.env.ADMIN_SESSION_COOKIE only
signInAdminAndSaveSession(resp) ==
  LET st1 == onSignInResponse(store, resp)
      cookie == extractSessionCookie(HeaderOr(resp.headers))
      saved == saveAdminAccountToEnvironment(env, account["admin"])
  IN  /\ coord = "IS"
      /\ acq["admin"].stage = "signin"
      /\ store' = st1
      /\ IF resp.type = "reject"
         THEN /\ IS_Throw("admin", "sign-in rejected", acq["admin"].reg)
              /\ UNCHANGED env
         ELSE IF resp.status # 200
         THEN /\ IS_Throw("admin", "sign-in status", acq["admin"].reg)
              /\ UNCHANGED env
         ELSE IF ~TruthyStr(cookie)
         THEN /\ IS_Throw("admin", "no session cookie", acq["admin"].reg)
              /\ env' = saved
         ELSE /\ env' = [saved EXCEPT !.ADMIN_SESSION_COOKIE = cookie]
              /\ IS_Complete("admin")
      /\ UNCHANGED <<calc, setup, transport, req, sent, coord, icpt, enabled, account, shared, call,
                     signInCalls, registerCalls, getMemberCalls>>

\* ------------------------------------------- coordinator of part_012 (P12)
\* In part_012 the acquisition is a task of its own (the async closure
\* `done`); the caller that started it awaits it like every other caller.
\* account[k] holds the closure's local `account`.

\* the password loadGeneralAccount / loadAdminAccount require
P12_Password(e, k) ==
  IF k = "general" THEN e.TEST_GENERAL_MEMBER_PASSWORD ELSE e.TEST_ADMIN_MEMBER_PASSWORD

\* loadGeneralAccount / loadAdminAccount when the password is present
P12_loadAccount(e, k) ==
  IF k = "general"
  THEN [email |-> IF e.TEST_GENERAL_MEMBER_EMAIL # NULL THEN e.TEST_GENERAL_MEMBER_EMAIL
                  ELSE "test-general-member@integration.test",
        password |-> e.TEST_GENERAL_MEMBER_PASSWORD,
        memberId |-> IF TruthyStr(e.INTEGRATION_TEST_MEMBER_ID)
                     THEN ParseInt(e.INTEGRATION_TEST_MEMBER_ID) ELSE NoId]
  ELSE [email |-> IF e.TEST_ADMIN_MEMBER_EMAIL # NULL THEN e.TEST_ADMIN_MEMBER_EMAIL
                  ELSE "test-admin-member@integration.test",
        password |-> e.TEST_ADMIN_MEMBER_PASSWORD,
        memberId |-> NoId]

\* mutant: the failure is swallowed and the promise resolved, as a
\* try/finally around the closure would do
P12_RejectionResolved(e) == [state |-> "resolved", err |-> NoError]

\* the state of the promise `done` once the closure has thrown e
P12_Rejection(e) == [state |-> "rejected", err |-> e]

\* the closure of k throws
P12_Throw(k, msg) ==
  LET e == [id |-> errSeq + 1, msg |-> msg]
  IN  /\ errSeq' = errSeq + 1
      /\ promise' = [promise EXCEPT ![k] = P12_Rejection(e)]
      /\ acq' = [acq EXCEPT ![k].stage = "failed"]

\* mutant: the closure throws where it should return, after its last write
P12_CompleteThrows(k) == P12_Throw(k, "thrown after the last write")

\* the closure of k returns
P12_Complete(k) ==
  /\ promise' = [promise EXCEPT ![k] = [state |-> "resolved", err |-> NoError]]
  /\ acq' = [acq EXCEPT ![k].stage = "ok"]
  /\ UNCHANGED errSeq

\* body of initializeGlobalTestSession / initializeAdminTestSession
P12_Initialize(c, k) ==
  IF ~enabled
  THEN /\ Return(c)
       /\ UNCHANGED <<env, promise, acq, account, shared, store,
                      signInCalls, registerCalls, getMemberCalls, errSeq>>
  ELSE IF HasPromise(k)
  THEN /\ Await(c)
       /\ UNCHANGED <<env, promise, acq, account, shared, store,
                      signInCalls, registerCalls, getMemberCalls, errSeq>>
  ELSE IF ~TruthyTok(P12_Password(env, k))
  THEN \* the load throws inside the closure: `done` is born rejected
       /\ P12_Throw(k, "password not configured")
       /\ Await(c)
       /\ UNCHANGED <<env, account, shared, store,
                      signInCalls, registerCalls, getMemberCalls>>
  ELSE \* the closure runs up to `await api.signIn(...)`
       /\ account' = [account EXCEPT ![k] = P12_loadAccount(env, k)]
       /\ signInCalls' = [signInCalls EXCEPT ![k] = @ + 1]
       /\ promise' = [promise EXCEPT ![k] = [state |-> "pending", err |-> NoError]]
       /\ acq' = [acq EXCEPT ![k] = [stage |-> "signin", owner |-> c, reg |-> "none"]]
       /\ Await(c)
       /\ UNCHANGED <<env, shared, store, registerCalls, getMemberCalls, errSeq>>

P12_initializeGlobalTestSession(c) ==
  /\ coord = "P12" /\ pc[c] = "idle" /\ StartsInOrder(c)
  /\ call' = [call EXCEPT ![c] = [fn |-> "initialize", kind |-> "general",
                                   found |-> promise["general"].state]]
  /\ P12_Initialize(c, "general")
  /\ UNCHANGED <<calc, setup, transport, req, sent, coord, icpt, enabled>>

P12_initializeAdminTestSession(c) ==
  /\ coord = "P12" /\ pc[c] = "idle" /\ StartsInOrder(c)
  /\ call' = [call EXCEPT ![c] = [fn |-> "initialize", kind |-> "admin",
                                   found |-> promise["admin"].state]]
  /\ P12_Initialize(c, "admin")
  /\ UNCHANGED <<calc, setup, transport, req, sent, coord, icpt, enabled>>

P12_waitForGlobalSession(c) ==
  /\ coord = "P12" /\ pc[c] = "idle" /\ StartsInOrder(c)
  /\ call' = [call EXCEPT ![c] = [fn |-> "wait", kind |-> "general",
                                   found |-> promise["general"].state]]
  /\ P12_Initialize(c, "general")
  /\ UNCHANGED <<calc, setup, transport, req, sent, coord, icpt, enabled>>

P12_waitForAdminSession(c) ==
  /\ coord = "P12" /\ pc[c] = "idle" /\ StartsInOrder(c)
  /\ call' = [call EXCEPT ![c] = [fn |-> "wait", kind |-> "admin",
                                   found |-> promise["admin"].state]]
  /\ P12_Initialize(c, "admin")
  /\ UNCHANGED <<calc, setup, transport, req, sent, coord, icpt, enabled>>

\* d?.data?.id ?? d?.member?.id ?? d?.sessionMember?.id ?? d?.id ?? null
\* (no modelled body carries a `member` field)
P12_MemberIdOf(old, body) ==
  IF old = NoId /\ body.present
  THEN IF body.dataId # NoId THEN body.dataId
       ELSE IF body.sessionMemberId # NoId THEN body.sessionMemberId
       ELSE body.id
  ELSE old

\* saveGeneralAccountToEnv
saveGeneralAccountToEnv(e, a) ==
  [e EXCEPT !.TEST_GENERAL_MEMBER_EMAIL = a.email,
            !.TEST_GENERAL_MEMBER_PASSWORD = a.password,
            !.INTEGRATION_TEST_MEMBER_ID =
                IF a.memberId # NoId THEN NatToStr(a.memberId) ELSE @]

\* the general closure from the answer of api.signIn on
P12_GlobalSignInDone(resp) ==
  LET cookie == extractCookieValue(HeaderNullish(resp.headers))
      full == [account["general"] EXCEPT !.memberId = P12_MemberIdOf(@, resp.body)]
  IN  /\ coord = "P12"
      /\ acq["general"].stage = "signin"
      /\ IF resp.type = "reject"
         THEN /\ P12_Throw("general", "sign-in rejected")
              /\ UNCHANGED <<store, account, shared, env, getMemberCalls>>
         ELSE IF resp.status # 200
         THEN /\ P12_Throw("general", "sign-in status")
              /\ UNCHANGED <<store, account, shared, env, getMemberCalls>>
         ELSE IF ~TruthyStr(cookie)
         THEN /\ P12_Throw("general", "no session cookie")
              /\ UNCHANGED <<store, account, shared, env, getMemberCalls>>
         ELSE /\ store' = setGeneralSessionCookie(store, cookie)
              /\ account' = [account EXCEPT !["general"] = full]
              /\ IF full.memberId = NoId
                 THEN \* up to `await api.getMember(...)`
                      /\ getMemberCalls' = [getMemberCalls EXCEPT !["general"] = @ + 1]
                      /\ acq' = [acq EXCEPT !["general"].stage = "getmember"]
                      /\ UNCHANGED <<promise, errSeq, shared, env>>
                 ELSE /\ shared' = full
                      /\ env' = saveGeneralAccountToEnv(env, full)
                      /\ P12_Complete("general")
                      /\ UNCHANGED getMemberCalls
      /\ UNCHANGED <<calc, setup, transport, req, sent, coord, icpt, enabled, pc, call, outcome,
                     signInCalls, registerCalls>>

\* the general closure from the answer of api.getMember on (a rejection is
\* swallowed by the empty catch)
P12_GetMemberDone(resp) ==
  LET full == [account["general"] EXCEPT !.memberId =
                 IF resp.type = "resolve" /\ resp.id # NoId THEN resp.id ELSE @]
  IN  /\ coord = "P12"
      /\ acq["general"].stage = "getmember"
      /\ account' = [account EXCEPT !["general"] = full]
      /\ shared' = full
      /\ env' = saveGeneralAccountToEnv(env, full)
      /\ P12_Complete("general")
      /\ UNCHANGED <<calc, setup, transport, req, sent, coord, icpt, enabled, store, pc, call, outcome,
                     signInCalls, registerCalls, getMemberCalls>>

\* the admin closure from the answer of api.signIn on
P12_AdminSignInDone(resp) ==
  LET cookie == extractCookieValue(HeaderNullish(resp.headers))
  IN  /\ coord = "P12"
      /\ acq["admin"].stage = "signin"
      /\ IF resp.type = "reject"
         THEN /\ P12_Throw("admin", "sign-in rejected")
              /\ UNCHANGED store
         ELSE IF resp.status # 200
         THEN /\ P12_Throw("admin", "sign-in status")
              /\ UNCHANGED store
         ELSE IF ~TruthyStr(cookie)
         THEN /\ P12_Throw("admin", "no session cookie")
              /\ UNCHANGED store
         ELSE /\ store' = setAdminSessionCookie(store, cookie)
              /\ P12_Complete("admin")
      /\ UNCHANGED <<calc, setup, transport, req, sent, coord, icpt, enabled, env, account, shared, pc, call, outcome,
                     signInCalls, registerCalls, getMemberCalls>>

\* getGlobalTestAccount of integration-session.ts (the value it returns)
getGlobalTestAccount(acct, e) ==
  IF TruthyTok(acct.email) /\ TruthyTok(acct.password) THEN acct
  ELSE IF loadAccountFromEnvironment(e) # NoAccount THEN loadAccountFromEnvironment(e)
  ELSE acct

\* getAccountFromEnvironment of integration-session.ts: NoAccount stands for
\* its null result
getAccountFromEnvironment(e) ==
  IF ~TruthyTok(e.INTEGRATION_TEST_EMAIL) \/ ~TruthyTok(e.INTEGRATION_TEST_PASSWORD)
  THEN NoAccount
  ELSE [email |-> e.INTEGRATION_TEST_EMAIL,
        password |-> e.INTEGRATION_TEST_PASSWORD,
        memberId |-> IF TruthyStr(e.INTEGRATION_TEST_MEMBER_ID)
                     THEN ParseInt(e.INTEGRATION_TEST_MEMBER_ID) ELSE NoId]

\* `x?.email && x?.password`
HasEmailAndPassword(a) == TruthyTok(a.email) /\ TruthyTok(a.password)

\* getTestAccount of integration-session.ts (the value it returns)
getTestAccount(sh, acct, e) ==
  IF HasEmailAndPassword(sh) THEN sh
  ELSE IF HasEmailAndPassword(getGlobalTestAccount(acct, e))
       THEN getGlobalTestAccount(acct, e)
       ELSE getAccountFromEnvironment(e)

\* getGlobalTestAccount / getTestAccount of part_012 (the value returned);
\* NoAccount stands for the throw of loadGeneralAccount
P12_getGlobalTestAccount(sh, e) ==
  IF HasEmailAndPassword(sh) THEN sh
  ELSE IF ~TruthyTok(P12_Password(e, "general")) THEN NoAccount
  ELSE P12_loadAccount(e, "general")

\* a call of getGlobalTestAccount of integration-session.ts: the account of
\* the environment, when it is the one returned, is kept in globalTest*
GetGlobalTestAccount ==
  /\ coord = "IS"
  /\ account' = [account EXCEPT !["general"] = getGlobalTestAccount(@, env)]
  /\ UNCHANGED <<calc, setup, transport, req, sent, coord, icpt, enabled, env, promise, acq, shared, store, pc, call,
                 outcome, signInCalls, registerCalls, getMemberCalls, errSeq>>

\* a call of getTestAccount of integration-session.ts: getGlobalTestAccount
\* is reached when no shared account is set
GetTestAccount ==
  /\ coord = "IS"
  /\ account' = IF HasEmailAndPassword(shared) THEN account
                ELSE [account EXCEPT !["general"] = getGlobalTestAccount(@, env)]
  /\ UNCHANGED <<calc, setup, transport, req, sent, coord, icpt, enabled, env, promise, acq, shared, store, pc, call,
                 outcome, signInCalls, registerCalls, getMemberCalls, errSeq>>

\* ------------------------------------------------------- the specification
Next ==
  \/ \E c \in Callers : initializeGlobalTestSession(c)
  \/ \E c \in Callers : initializeAdminTestSession(c)
  \/ \E c \in Callers : waitForGlobalSession(c)
  \/ \E c \in Callers : waitForAdminSession(c)
  \/ \E resp \in RegisterResponses : createNewTestAccount(resp)
  \/ \E resp \in SignInResponses("general") : signInAndSaveSession(resp)
  \/ \E resp \in SignInResponses("admin") : signInAdminAndSaveSession(resp)
  \/ \E c \in Callers : P12_initializeGlobalTestSession(c)
  \/ \E c \in Callers : P12_initializeAdminTestSession(c)
  \/ \E c \in Callers : P12_waitForGlobalSession(c)
  \/ \E c \in Callers : P12_waitForAdminSession(c)
  \/ \E resp \in SignInResponses("general") : P12_GlobalSignInDone(resp)
  \/ \E resp \in GetMemberResponses : P12_GetMemberDone(resp)
  \/ \E resp \in SignInResponses("admin") : P12_AdminSignInDone(resp)
  \/ \E c \in Callers : Resume(c)
  \/ GetGlobalTestAccount
  \/ GetTestAccount

Spec == Init /\ [][Next]_vars

\* an api.register or api.signIn call in flight returns or fails
RegisterOrSignInReturns ==
  \/ \E resp \in RegisterResponses : createNewTestAccount(resp)
  \/ \E resp \in SignInResponses("general") : signInAndSaveSession(resp)
  \/ \E resp \in SignInResponses("admin") : signInAdminAndSaveSession(resp)
  \/ \E resp \in SignInResponses("general") : P12_GlobalSignInDone(resp)
  \/ \E resp \in SignInResponses("admin") : P12_AdminSignInDone(resp)

\* an api.getMember call in flight returns or fails
GetMemberReturns == \E resp \in GetMemberResponses : P12_GetMemberDone(resp)

\* The fallback credentials of the environment and the interceptor in use
\* play no part in how a call settles: one choice of each.
FairInit ==
  /\ Init
  /\ icpt = "ACA"
  /\ env.GENERAL_MEMBER_SESSION_COOKIE = NoStr
  /\ env.ADMIN_MEMBER_SESSION_COOKIE = NoStr

\* The event loop runs the continuation of every caller whose awaited
\* promise has settled, and the registration and sign-in collaborators
\* answer every call.
FairSpec ==
  /\ FairInit /\ [][Next]_vars
  /\ \A c \in Callers : WF_vars(Resume(c))
  /\ WF_vars(RegisterOrSignInReturns)

\* ------------------------------- the interceptor of axios-cookie-auth.ts
SignInPath == <<"/", "a", "u", "t", "h", "/", "s", "i", "g", "n", "i", "n">>

SignOutPath == <<"/", "a", "u", "t", "h", "/", "s", "i", "g", "n", "o", "u", "t">>

MemberPath == <<"/", "m", "e", "m", "b", "e", "r">>

\* an explicit credential a caller puts on a call
ExplicitCookie == <<"x", "=", "9">>

\* target URLs of a call; NoStr: no URL
Urls == {NoStr, MemberPath, SignInPath, <<"/", "v", "1">> \o SignInPath, SignOutPath}

\* values under x-session-kind: two valid identities and an invalid one
SelectorValues == {"absent", "general", "admin", "bogus"}

\* values under x-skip-auth, as type:value
SkipValues == {"absent", "bool:true", "str:true", "bool:false", "str:1"}

\* at most one credential header on a call, under one of three casings,
\* holding a value or the empty string
CookieHeaderChoices ==
  {<<NoStr, NoStr, NoStr>>} \cup
  UNION { {<<v, NoStr, NoStr>>, <<NoStr, v, NoStr>>, <<NoStr, NoStr, v>>} :
          v \in {ExplicitCookie, <<>>} }

HeaderChoices ==
  {AbsentHeaders} \cup
  { [present |-> TRUE, kind |-> k, skip |-> sk,
     Cookie |-> c[1], cookie |-> c[2], COOKIE |-> c[3]] :
      k \in SelectorValues, sk \in SkipValues, c \in CookieHeaderChoices }

\* attributes of an issuance header value other than Path, HttpOnly, Secure
LifetimeAttrs ==
  <<";", " ", "M", "a", "x", "-", "A", "g", "e", "=", "6", "0", ";", " ",
    "S", "a", "m", "e", "S", "i", "t", "e", "=", "L", "a", "x">>

\* tokens a caller stores: none, a cookie pair, raw issuance strings
GeneralTokens ==
  {NoStr, IssuedCookie("general"), IssuedCookie("general") \o CookieAttrs,
   IssuedCookie("general") \o LifetimeAttrs}

AdminTokens == {NoStr, IssuedCookie("admin")}

\* mutant: the selector is not read
readSessionKindFromHeadersIgnores(headers) == NULL

\* readSessionKindFromHeaders: NULL stands for undefined
readSessionKindFromHeaders(headers) ==
  IF headers.present /\ headers.kind \in {"general", "admin"} THEN headers.kind
  ELSE NULL

\* mutant: the copy keeps the selector
stripInternalHeadersKeeps(headers) ==
  IF headers.present THEN headers ELSE EmptyHeaders

\* stripInternalHeaders: a copy of the headers without x-session-kind
stripInternalHeaders(headers) ==
  IF headers.present THEN [headers EXCEPT !.kind = "absent"] ELSE EmptyHeaders

\* mutant: no URL counts as a sign-in path
TargetsSignInNever(url) == FALSE

\* `url.includes("/auth/signin")`
TargetsSignIn(url) == Includes(url, SignInPath)

\* mutant: only the boolean true is a skip flag
SkipsAuthBooleanOnly(headers) == headers.skip = "bool:true"

\* `headers["x-skip-auth"] === true || headers["x-skip-auth"] === "true"`
SkipsAuth(headers) == headers.skip \in {"bool:true", "str:true"}

\* `!!headers.Cookie || !!headers.cookie`
HasCookie(headers) == TruthyStr(headers.Cookie) \/ TruthyStr(headers.cookie)

\* `{ ...headers, Cookie: formatCookieHeader(cookie) }`
WithCookie(headers, cookie) == [headers EXCEPT !.Cookie = formatCookieHeader(cookie)]

\* the request interceptor setupCookieAuth installs, applied to a config
\* with this url and these headers
RequestInterceptor(st, e, url, hdrs) ==
  LET kind == readSessionKindFromHeaders(hdrs)
      headers == stripInternalHeaders(hdrs)
      cookie == getCookie(st, e, kind)
      u == IF TruthyStr(url) THEN url ELSE <<>>
  IN  [thrown |-> FALSE, url |-> url,
       headers |-> IF ~TruthyStr(cookie) THEN headers
                   ELSE IF TargetsSignIn(u) THEN headers
                   ELSE IF SkipsAuth(headers) THEN headers
                   ELSE IF HasCookie(headers) THEN headers
                   ELSE WithCookie(headers, cookie)]

\* buildCookieConfig of wrapTargetMethods; `url.includes` is reached with the
\* url as passed, and throws a TypeError when there is none
buildCookieConfig(st, e, url, hdrs) ==
  LET headers == stripInternalHeaders(hdrs)
      kind == readSessionKindFromHeaders(hdrs)
      cookie == getCookie(st, e, kind)
  IN  IF ~TruthyStr(cookie) THEN [thrown |-> FALSE, url |-> url, headers |-> headers]
      ELSE IF url = NoStr THEN [thrown |-> TRUE, url |-> url, headers |-> AbsentHeaders]
      ELSE [thrown |-> FALSE, url |-> url,
            headers |-> IF TargetsSignIn(url) \/ Includes(url, SignOutPath) THEN headers
                        ELSE IF SkipsAuth(headers) THEN headers
                        ELSE IF HasCookie(headers) THEN headers
                        ELSE WithCookie(headers, cookie)]

WrappedMethods == {"get", "post", "put", "delete", "patch"}

\* what leaves the interceptor for call r: through the request interceptor
\* of an instance, or through a wrapped method, which passes `{}` for a
\* config argument that was not given
Outgoing(st, e, r) ==
  IF r.via = "request" THEN RequestInterceptor(st, e, r.url, r.headers)
  ELSE buildCookieConfig(st, e, r.url, IF r.hasCfg THEN r.headers ELSE AbsentHeaders)

\* the calls a caller can make
Requests ==
  { [via |-> "request", url |-> u, hasCfg |-> TRUE, headers |-> h] :
      u \in Urls, h \in HeaderChoices } \cup
  { [via |-> m, url |-> u, hasCfg |-> TRUE, headers |-> h] :
      m \in WrappedMethods, u \in Urls, h \in HeaderChoices } \cup
  { [via |-> m, url |-> u, hasCfg |-> FALSE, headers |-> AbsentHeaders] :
      m \in WrappedMethods, u \in Urls }

\* the environment holds only the fallback credentials; no coordinator runs
IcptInit ==
  /\ coord = "IS"
  /\ icpt = "ACA"
  /\ enabled = FALSE
  /\ env \in {WithFallback(EnvBase, g, a) : g \in {NoStr, PresetCookie},
                                           a \in {NoStr, PresetCookie}}
  /\ promise = [k \in Kinds |-> NoPromise]
  /\ acq = [k \in Kinds |-> NoAcq]
  /\ account = [k \in Kinds |-> NoAccount]
  /\ shared = NoAccount
  /\ store = [general |-> NoStr, admin |-> NoStr,
              defaultSessionKind |-> "general", sessionCookie |-> NoStr]
  /\ pc = [c \in Callers |-> "idle"]
  /\ call = [c \in Callers |-> NoCall]
  /\ outcome = [c \in Callers |-> [ok |-> FALSE, err |-> NoError]]
  /\ signInCalls = [k \in Kinds |-> 0]
  /\ registerCalls = [k \in Kinds |-> 0]
  /\ getMemberCalls = [k \in Kinds |-> 0]
  /\ errSeq = 0
  /\ req = NoReq
  /\ sent = NoSent
  /\ transport = NoTransport
  /\ setup = "none"
  /\ calc = NoCalc

\* The setters of the store. The interceptor runs synchronously, so no call
\* is inside it when a setter runs.
\* setSessionCookie(t)
CallSetSessionCookie ==
  /\ req = NoReq
  /\ \E t \in GeneralTokens : store' = ACA_setSessionCookie(store, t)
  /\ UNCHANGED <<calc, setup, transport, req, sent, coord, icpt, enabled, env, promise, acq, account, shared,
                 pc, call, outcome, signInCalls, registerCalls, getMemberCalls,
                 errSeq>>

\* setGeneralSessionCookie(t)
CallSetGeneralSessionCookie ==
  /\ req = NoReq
  /\ \E t \in GeneralTokens : store' = setGeneralSessionCookie(store, t)
  /\ UNCHANGED <<calc, setup, transport, req, sent, coord, icpt, enabled, env, promise, acq, account, shared,
                 pc, call, outcome, signInCalls, registerCalls, getMemberCalls,
                 errSeq>>

\* setAdminSessionCookie(t)
CallSetAdminSessionCookie ==
  /\ req = NoReq
  /\ \E t \in AdminTokens : store' = setAdminSessionCookie(store, t)
  /\ UNCHANGED <<calc, setup, transport, req, sent, coord, icpt, enabled, env, promise, acq, account, shared,
                 pc, call, outcome, signInCalls, registerCalls, getMemberCalls,
                 errSeq>>

\* setCurrentSession(kind), kind a session kind or null
CallSetCurrentSession ==
  /\ req = NoReq
  /\ \E k \in Kinds \cup {NULL} : store' = [store EXCEPT !.defaultSessionKind = k]
  /\ UNCHANGED <<calc, setup, transport, req, sent, coord, icpt, enabled, env, promise, acq, account, shared,
                 pc, call, outcome, signInCalls, registerCalls, getMemberCalls,
                 errSeq>>

\* clearSessionCookie()
CallClearSessionCookie ==
  /\ req = NoReq
  /\ store' = [store EXCEPT !.general = NoStr, !.admin = NoStr,
                            !.defaultSessionKind = "general"]
  /\ UNCHANGED <<calc, setup, transport, req, sent, coord, icpt, enabled, env, promise, acq, account, shared,
                 pc, call, outcome, signInCalls, registerCalls, getMemberCalls,
                 errSeq>>

\* a call goes through the interceptor
Intercept ==
  /\ req = NoReq
  /\ \E r \in Requests :
        /\ req' = r
        /\ sent' = Outgoing(store, env, r)
  /\ UNCHANGED <<calc, setup, transport, coord, icpt, enabled, env, promise, acq, account, shared, store,
                 pc, call, outcome, signInCalls, registerCalls, getMemberCalls,
                 errSeq>>

\* the transport (the original method, the adapter) takes the call over
Transport ==
  /\ req # NoReq
  /\ req' = NoReq
  /\ sent' = NoSent
  /\ UNCHANGED <<calc, setup, transport, coord, icpt, enabled, env, promise, acq, account, shared, store,
                 pc, call, outcome, signInCalls, registerCalls, getMemberCalls,
                 errSeq>>

IcptNext ==
  \/ CallSetSessionCookie
  \/ CallSetGeneralSessionCookie
  \/ CallSetAdminSessionCookie
  \/ CallSetCurrentSession
  \/ CallClearSessionCookie
  \/ Intercept
  \/ Transport

IcptSpec == IcptInit /\ [][IcptNext]_vars

\* --------------------------- the single-cookie interceptor of part_013
\* headers of a call made over part_013, which knows no selector
P13_HeaderChoices == {h \in HeaderChoices : h.kind = "absent"}

\* the request interceptor of part_013: the config is returned as it came
\* unless a credential is attached
P13_RequestInterceptor(st, e, url, hdrs) ==
  LET cookie == P13_getCookie(st, e)
      u == IF TruthyStr(url) THEN url ELSE <<>>
      isAuthEndpoint == Includes(u, SignInPath) \/ Includes(u, SignOutPath)
  IN  [thrown |-> FALSE, url |-> url,
       headers |-> IF ~TruthyStr(cookie) THEN hdrs
                   ELSE IF isAuthEndpoint THEN hdrs
                   ELSE IF ~SkipsAuth(hdrs) /\ ~HasCookie(hdrs)
                        THEN WithCookie([hdrs EXCEPT !.present = TRUE], cookie)
                        ELSE hdrs]

\* the proxy part_013 puts around a method, up to `orig.apply`:
\* `url.includes` throws a TypeError when the call has no url
P13_WrappedCall(st, e, url, hdrs) ==
  LET cookie == P13_getCookie(st, e)
  IN  IF url = NoStr THEN [thrown |-> TRUE, url |-> url, headers |-> AbsentHeaders]
      ELSE [thrown |-> FALSE, url |-> url,
            headers |-> IF \/ SkipsAuth(hdrs)
                           \/ HasCookie(hdrs)
                           \/ ~TruthyStr(cookie)
                           \/ Includes(url, SignInPath) \/ Includes(url, SignOutPath)
                        THEN hdrs
                        ELSE WithCookie([hdrs EXCEPT !.present = TRUE], cookie)]

P13_Outgoing(st, e, r) ==
  IF r.via = "request" THEN P13_RequestInterceptor(st, e, r.url, r.headers)
  ELSE P13_WrappedCall(st, e, r.url, IF r.hasCfg THEN r.headers ELSE AbsentHeaders)

P13_Requests == {r \in Requests : r.headers \in P13_HeaderChoices}

\* the response interceptor, and the `.then` of the proxy, on the answer to
\* a call to url
P13_onResponse(st, url, resp) ==
  IF TruthyStr(url) /\ Includes(url, SignInPath) THEN P13_onSignInResponse(st, resp)
  ELSE st

P13Init ==
  /\ coord = "IS"
  /\ icpt = "P13"
  /\ enabled = FALSE
  /\ env \in {[EnvBase EXCEPT !.SESSION_COOKIE = c] : c \in {NoStr, PresetCookie}}
  /\ promise = [k \in Kinds |-> NoPromise]
  /\ acq = [k \in Kinds |-> NoAcq]
  /\ account = [k \in Kinds |-> NoAccount]
  /\ shared = NoAccount
  /\ store = [general |-> NoStr, admin |-> NoStr,
              defaultSessionKind |-> "general", sessionCookie |-> NoStr]
  /\ pc = [c \in Callers |-> "idle"]
  /\ call = [c \in Callers |-> NoCall]
  /\ outcome = [c \in Callers |-> [ok |-> FALSE, err |-> NoError]]
  /\ signInCalls = [k \in Kinds |-> 0]
  /\ registerCalls = [k \in Kinds |-> 0]
  /\ getMemberCalls = [k \in Kinds |-> 0]
  /\ errSeq = 0
  /\ req = NoReq
  /\ sent = NoSent
  /\ transport = NoTransport
  /\ setup = "none"
  /\ calc = NoCalc

\* setSessionCookie(t) of part_013
P13_CallSetSessionCookie ==
  /\ req = NoReq
  /\ \E t \in GeneralTokens : store' = P13_setSessionCookie(store, t)
  /\ UNCHANGED <<calc, setup, transport, req, sent, coord, icpt, enabled, env, promise, acq,
                 account, shared, pc, call, outcome, signInCalls, registerCalls,
                 getMemberCalls, errSeq>>

\* clearSessionCookie() of part_013
P13_CallClearSessionCookie ==
  /\ req = NoReq
  /\ store' = P13_setSessionCookie(store, NoStr)
  /\ UNCHANGED <<calc, setup, transport, req, sent, coord, icpt, enabled, env, promise, acq,
                 account, shared, pc, call, outcome, signInCalls, registerCalls,
                 getMemberCalls, errSeq>>

\* a test case makes a call: it passes the request side of the interceptor
P13_Intercept ==
  /\ req = NoReq
  /\ \E r \in P13_Requests :
        /\ req' = r
        /\ sent' = P13_Outgoing(store, env, r)
  /\ UNCHANGED <<calc, setup, transport, coord, icpt, enabled, env, promise, acq, account,
                 shared, store, pc, call, outcome, signInCalls, registerCalls,
                 getMemberCalls, errSeq>>

\* the transport answers the call and the response side of the interceptor
\* runs (a call that threw in the proxy never got to the transport)
P13_Respond ==
  /\ req # NoReq
  /\ IF sent.thrown THEN UNCHANGED store
     ELSE \E resp \in SignInResponses("general") :
             store' = P13_onResponse(store, req.url, resp)
  /\ req' = NoReq
  /\ sent' = NoSent
  /\ UNCHANGED <<calc, setup, transport, coord, icpt, enabled, env, promise, acq, account,
                 shared, pc, call, outcome, signInCalls, registerCalls,
                 getMemberCalls, errSeq>>

P13Next ==
  \/ P13_CallSetSessionCookie
  \/ P13_CallClearSessionCookie
  \/ P13_Intercept
  \/ P13_Respond

P13Spec == P13Init /\ [][P13Next]_vars

\* ------------------------------------- the credential-extraction helpers
\* how many values an issuance header list holds at most
MaxHeaderValues == 2

\* a value that holds attributes only: its name=value part is empty
AttributesOnly == <<" ", ";", " ", "P", "a", "t", "h", "=", "/">>

\* values of a set-cookie header: pairs with attributes, a bare pair, the
\* empty string, attributes alone
HeaderValueChoices ==
  { IssuedCookie("general") \o CookieAttrs, OtherCookie, IssuedCookie("admin"),
    <<>>, AttributesOnly }

\* arguments of the helpers: undefined, one string, a list of strings
ExtractInputs ==
  {NoHeader} \cup
  {StrHeader(v) : v \in HeaderValueChoices} \cup
  {ArrHeader(ss) : ss \in UNION {[1..n -> HeaderValueChoices] : n \in 0..MaxHeaderValues}}

ExtractInit ==
  /\ coord = "IS"
  /\ icpt = "ACA"
  /\ enabled = FALSE
  /\ env = EnvBase
  /\ promise = [k \in Kinds |-> NoPromise]
  /\ acq = [k \in Kinds |-> NoAcq]
  /\ account = [k \in Kinds |-> NoAccount]
  /\ shared = NoAccount
  /\ store = [general |-> NoStr, admin |-> NoStr,
              defaultSessionKind |-> "general", sessionCookie |-> NoStr]
  /\ pc = [c \in Callers |-> "idle"]
  /\ call = [c \in Callers |-> NoCall]
  /\ outcome = [c \in Callers |-> [ok |-> FALSE, err |-> NoError]]
  /\ signInCalls = [k \in Kinds |-> 0]
  /\ registerCalls = [k \in Kinds |-> 0]
  /\ getMemberCalls = [k \in Kinds |-> 0]
  /\ errSeq = 0
  /\ req = NoReq
  /\ sent = NoSent
  /\ transport = NoTransport
  /\ setup = "none"
  /\ calc \in {[NoCalc EXCEPT !.arg = h] : h \in ExtractInputs}

\* extractCookieValue of axios-cookie-auth.ts is applied to the argument
ApplyExtractCookieValue ==
  /\ calc.fn = "none"
  /\ calc' = [calc EXCEPT !.fn = "extractCookieValue",
                          !.result = extractCookieValue(calc.arg)]
  /\ UNCHANGED <<setup, transport, req, sent, coord, icpt, enabled, env, promise, acq,
                 account, shared, store, pc, call, outcome, signInCalls,
                 registerCalls, getMemberCalls, errSeq>>

\* extractSessionCookie of integration-session.ts is applied to the argument
ApplyExtractSessionCookie ==
  /\ calc.fn = "none"
  /\ calc' = [calc EXCEPT !.fn = "extractSessionCookie",
                          !.result = extractSessionCookie(calc.arg)]
  /\ UNCHANGED <<setup, transport, req, sent, coord, icpt, enabled, env, promise, acq,
                 account, shared, store, pc, call, outcome, signInCalls,
                 registerCalls, getMemberCalls, errSeq>>

ExtractNext ==
  \/ ApplyExtractCookieValue
  \/ ApplyExtractSessionCookie

ExtractSpec == ExtractInit /\ [][ExtractNext]_vars

\* ------------------------------------- the sequential setup of part_007
\* setup() runs on one thread of control: caller 1 is its call of
\* initializeGlobalTestSession, caller 2 its call of
\* initializeAdminTestSession; `setup` is the position it has reached.

\* setCurrentSession(kind)
setCurrentSession(st, kind) == [st EXCEPT !.defaultSessionKind = kind]

\* part_012 over axios-cookie-auth, nothing started
SetupInit ==
  /\ Init
  /\ coord = "P12"
  /\ icpt = "ACA"

\* setup() up to its first await: setCurrentSession(null) and the call of
\* initializeGlobalTestSession()
SetupBegin ==
  /\ setup = "none"
  /\ setup' = "general"
  /\ store' = setCurrentSession(store, NULL)
  /\ UNCHANGED <<calc, transport, req, sent, coord, icpt, enabled, env, promise,
                 acq, account, shared, pc, call, outcome, signInCalls,
                 registerCalls, getMemberCalls, errSeq>>

\* `await initializeGlobalTestSession()` is over: setup goes on to the admin
\* acquisition, or rejects with the error awaited
SetupGeneralReturned ==
  /\ setup = "general"
  /\ pc[1] = "done"
  /\ setup' = IF outcome[1].ok THEN "admin" ELSE "failed"
  /\ UNCHANGED <<calc, transport, req, sent, coord, icpt, enabled, env, promise,
                 acq, account, shared, store, pc, call, outcome, signInCalls,
                 registerCalls, getMemberCalls, errSeq>>

\* `await initializeAdminTestSession()` is over: setCurrentSession("general")
\* and setup returns, or setup rejects with the error awaited
SetupAdminReturned ==
  /\ setup = "admin"
  /\ pc[2] = "done"
  /\ IF outcome[2].ok
     THEN /\ setup' = "done"
          /\ store' = setCurrentSession(store, "general")
     ELSE /\ setup' = "failed"
          /\ UNCHANGED store
  /\ UNCHANGED <<calc, transport, req, sent, coord, icpt, enabled, env, promise,
                 acq, account, shared, pc, call, outcome, signInCalls,
                 registerCalls, getMemberCalls, errSeq>>

SetupNext ==
  \/ SetupBegin
  \/ setup = "general" /\ P12_initializeGlobalTestSession(1)
  \/ SetupGeneralReturned
  \/ setup = "admin" /\ P12_initializeAdminTestSession(2)
  \/ SetupAdminReturned
  \/ \E resp \in SignInResponses("general") : P12_GlobalSignInDone(resp)
  \/ \E resp \in GetMemberResponses : P12_GetMemberDone(resp)
  \/ \E resp \in SignInResponses("admin") : P12_AdminSignInDone(resp)
  \/ \E c \in Callers : Resume(c)

SetupSpec == SetupInit /\ [][SetupNext]_vars

\* ------------------------- installing the interceptor on a transport
\* how many setupCookieAuth calls and how many wrap runs are followed
MaxInstalls == 3

\* `(axiosInstance as any)[COOKIE_AUTH_INSTALLED]`
AlreadyInstalled(t) == t.installed

\* mutant: the mark on the method is not looked at
AlreadyWrappedNever(n) == FALSE

\* `(fn as any).__cookieAuthWrapped` / `(origCreate as any).__cookieAuthCreatePatched`:
\* the mark is set on the proxy, which hands it to the function it wraps
AlreadyWrapped(n) == n > 0

\* wrapTargetMethods followed by the patch of create
wrapMockedAxiosCookieAuth(t) ==
  [t EXCEPT !.layers = IF AlreadyWrapped(@) THEN @ ELSE @ + 1,
            !.createLayers = IF AlreadyWrapped(@) THEN @ ELSE @ + 1,
            !.wraps = @ + 1]

\* setupCookieAuth(axios)
CallSetupCookieAuth ==
  /\ req = NoReq
  /\ transport.setups < MaxInstalls
  /\ transport' =
       IF AlreadyInstalled(transport) THEN [transport EXCEPT !.setups = @ + 1]
       ELSE [transport EXCEPT !.setups = @ + 1, !.installed = TRUE,
                              !.interceptors = @ + 1]
  /\ UNCHANGED <<calc, setup, req, sent, coord, icpt, enabled, env, promise, acq,
                 account, shared, store, pc, call, outcome, signInCalls,
                 registerCalls, getMemberCalls, errSeq>>

\* ensureCookieAuthWrapped(): from beforeAll, beforeEach or a queued microtask
CallEnsureCookieAuthWrapped ==
  /\ req = NoReq
  /\ transport.wraps < MaxInstalls
  /\ transport' = wrapMockedAxiosCookieAuth(transport)
  /\ UNCHANGED <<calc, setup, req, sent, coord, icpt, enabled, env, promise, acq,
                 account, shared, store, pc, call, outcome, signInCalls,
                 registerCalls, getMemberCalls, errSeq>>

\* the patched vi.clearAllMocks(): the mocks keep their proxies and marks;
\* ensureCookieAuthWrapped runs at once and again from a microtask
CallClearAllMocks ==
  /\ req = NoReq
  /\ transport.wraps + 1 < MaxInstalls
  /\ transport' = wrapMockedAxiosCookieAuth(wrapMockedAxiosCookieAuth(transport))
  /\ UNCHANGED <<calc, setup, req, sent, coord, icpt, enabled, env, promise, acq,
                 account, shared, store, pc, call, outcome, signInCalls,
                 registerCalls, getMemberCalls, errSeq>>

\* the proxies around a method, outermost first: each builds the config for
\* the next one; a TypeError in one of them ends the call
RECURSIVE ThroughLayers(_, _, _, _, _)
ThroughLayers(n, st, e, url, hdrs) ==
  IF n = 0 THEN [thrown |-> FALSE, url |-> url, headers |-> hdrs, decisions |-> 0]
  ELSE LET o == buildCookieConfig(st, e, url, hdrs)
           rest == ThroughLayers(n - 1, st, e, url, o.headers)
       IN  IF o.thrown
           THEN [thrown |-> TRUE, url |-> o.url, headers |-> o.headers, decisions |-> 1]
           ELSE [rest EXCEPT !.decisions = @ + 1]

\* the request interceptors registered on the instance, one after the other
RECURSIVE ThroughInterceptors(_, _, _, _, _)
ThroughInterceptors(n, st, e, url, hdrs) ==
  IF n = 0 THEN [thrown |-> FALSE, url |-> url, headers |-> hdrs, decisions |-> 0]
  ELSE [ThroughInterceptors(n - 1, st, e, url,
                            RequestInterceptor(st, e, url, hdrs).headers)
          EXCEPT !.decisions = @ + 1]

\* the second argument of post/put/patch: not given, or a body
DataArgs == {"absent", "body"}

\* calls made on the instance: with and without url, config argument and
\* headers, with a credential header of the caller's own or without
InstallRequests ==
  { [via |-> m, url |-> u, hasCfg |-> TRUE, headers |-> h, data |-> d] :
      m \in WrappedMethods \cup {"request"}, u \in {NoStr, MemberPath, SignOutPath},
      h \in {AbsentHeaders, EmptyHeaders, [EmptyHeaders EXCEPT !.Cookie = ExplicitCookie]},
      d \in DataArgs } \cup
  { [via |-> m, url |-> u, hasCfg |-> FALSE, headers |-> AbsentHeaders, data |-> d] :
      m \in WrappedMethods, u \in {NoStr, MemberPath, SignOutPath}, d \in DataArgs }

\* what the underlying method is called with: [url, cfg] by get and delete,
\* [url, data, cfg] by post, put and patch, data being null when not given
ReceivedArgs(r, o) ==
  [url |-> o.url,
   data |-> IF r.via \in {"get", "delete", "request"} THEN "none"
            ELSE IF r.data = "absent" THEN "null" ELSE r.data,
   headers |-> o.headers]

\* a call is made on the instance
InstalledCall ==
  /\ req = NoReq
  /\ \E r \in InstallRequests :
        LET n == IF r.via = "request" THEN transport.interceptors ELSE transport.layers
            hdrs == IF r.hasCfg THEN r.headers ELSE AbsentHeaders
            o == IF r.via = "request"
                 THEN ThroughInterceptors(n, store, env, r.url, hdrs)
                 ELSE ThroughLayers(n, store, env, r.url, hdrs)
        IN  /\ r.via \in {"get", "delete", "request"} => r.data = "absent"
            /\ req' = r
            /\ sent' = [thrown |-> o.thrown, url |-> o.url, headers |-> o.headers]
            /\ transport' = [transport EXCEPT
                 !.decisions = o.decisions,
                 !.received = IF o.thrown THEN <<>> ELSE <<ReceivedArgs(r, o)>>,
                 !.answer = "none",
                 !.returned = IF o.thrown THEN "TypeError" ELSE "none"]
  /\ UNCHANGED <<calc, setup, coord, icpt, enabled, env, promise, acq, account,
                 shared, store, pc, call, outcome, signInCalls, registerCalls,
                 getMemberCalls, errSeq>>

\* the underlying method settles the call; the proxy returns its promise
TransportAnswers ==
  /\ req # NoReq
  /\ transport.received # <<>>
  /\ transport.answer = "none"
  /\ \E a \in {"fulfilled", "rejected"} :
        transport' = [transport EXCEPT !.answer = a, !.returned = a]
  /\ UNCHANGED <<calc, setup, req, sent, coord, icpt, enabled, env, promise, acq,
                 account, shared, store, pc, call, outcome, signInCalls,
                 registerCalls, getMemberCalls, errSeq>>

\* the call is over
CallReturns ==
  /\ req # NoReq
  /\ transport.returned # "none"
  /\ req' = NoReq
  /\ sent' = NoSent
  /\ transport' = [transport EXCEPT !.decisions = 0, !.received = <<>>,
                                    !.answer = "none", !.returned = "none"]
  /\ UNCHANGED <<calc, setup, coord, icpt, enabled, env, promise, acq, account,
                 shared, store, pc, call, outcome, signInCalls, registerCalls,
                 getMemberCalls, errSeq>>

InstallInit ==
  /\ IcptInit
  /\ env.ADMIN_MEMBER_SESSION_COOKIE = NoStr

InstallNext ==
  \/ CallSetupCookieAuth
  \/ CallEnsureCookieAuthWrapped
  \/ CallClearAllMocks
  \/ CallSetSessionCookie
  \/ CallClearSessionCookie
  \/ InstalledCall
  \/ TransportAnswers
  \/ CallReturns

InstallSpec == InstallInit /\ [][InstallNext]_vars

\* ------------------------------------------------------------- properties
Done(c) == pc[c] = "done"

Settled(k) == acq[k].stage \in {"ok", "failed"}

\* C1: for each identity class and in each coordinator, over every
\* interleaving of callers (concurrent with the first call or after it), at
\* most one sign-in call and at most one registration call is issued.
C1_AtMostOneAcquisition ==
  \A k \in Kinds : signInCalls[k] <= 1 /\ registerCalls[k] <= 1

\* two callers of the same class are done, one of which joined the
\* acquisition in flight, and one sign-in was issued
C1_Witness ==
  \E k \in Kinds : \E c, d \in Callers :
     /\ c # d /\ call[c].kind = k /\ call[d].kind = k
     /\ Done(c) /\ Done(d)
     /\ call[d].found = "pending"
     /\ signInCalls[k] = 1

\* C2 (as claimed): in integration-session.ts a caller that joined an
\* acquisition in flight is rejected with the acquisition's failure when the
\* acquisition fails; it never completes successfully.
C2_JoinersSeeFailure ==
  coord = "IS" =>
    \A c \in Callers :
      (Done(c) /\ call[c].found = "pending" /\ acq[call[c].kind].stage = "failed")
        => /\ ~outcome[c].ok
           /\ outcome[c].err = outcome[acq[call[c].kind].owner].err

\* C3: in part_012, once the acquisition of a class has failed, the promise
\* stays rejected, every call of that class that has settled was rejected
\* with the error of the failed acquisition, and no sign-in call beyond the
\* failed attempt's own is issued (none when the password is not configured).
C3_FailureIsShared ==
  coord = "P12" =>
    \A k \in Kinds :
      acq[k].stage = "failed" =>
        /\ promise[k].state = "rejected"
        /\ promise[k].err.id # 0
        /\ \A c \in Callers :
              (call[c].kind = k /\ Done(c))
                => (~outcome[c].ok /\ outcome[c].err = promise[k].err)
        /\ signInCalls[k] =
              (IF promise[k].err.msg = "password not configured" THEN 0 ELSE 1)

\* the admin password is absent, the first call and a later call of the
\* admin class have both been rejected
C3_Witness ==
  /\ coord = "P12"
  /\ acq["admin"].stage = "failed"
  /\ promise["admin"].err.msg = "password not configured"
  /\ \E c, d \in Callers :
        /\ c # d /\ call[c].kind = "admin" /\ call[d].kind = "admin"
        /\ Done(c) /\ Done(d)
        /\ call[c].found = "none" /\ call[d].found = "rejected"

\* C4 (as claimed): with integration enabled, whenever a coordinator call of
\* integration-session.ts for class k completes successfully, the
\* interceptor of axios-cookie-auth.ts resolves a credential for k.
C4_ReadyImpliesCredential ==
  [][ (coord = "IS" /\ icpt = "ACA" /\ enabled)
        => \A c \in Callers :
             (pc[c] # "done" /\ pc'[c] = "done" /\ outcome'[c].ok)
               => getCookie(store', env', call'[c].kind) # NoStr ]_vars

\* C5 (as claimed): over part_013, once the general and the admin sign-in
\* have both succeeded, the credential attached to a call is the one issued
\* to the general sign-in, in whichever order the answers arrived.
C5_GeneralCredentialKept ==
  ( /\ coord = "IS" /\ icpt = "P13"
    /\ acq["general"].stage = "ok" /\ signInCalls["general"] = 1
    /\ acq["admin"].stage = "ok" )
    => formatCookieHeader(P13_getCookie(store, env)) = IssuedCookie("general")

\* C6 (as claimed): in integration-session.ts, while no admin password is
\* configured, no admin sign-in call is issued and the admin acquisition,
\* once begun, has failed.
C6_NoAdminSignInWithoutSecret ==
  (coord = "IS" /\ ~TruthyTok(env.ADMIN_TEST_PASSWORD))
    => /\ signInCalls["admin"] = 0
       /\ acq["admin"].stage \in {"none", "failed"}

\* C7 (as claimed): with integration enabled, a wait-for-ready call that
\* has returned did so only after the acquisition of its class had completed.
C7_WaitReturnsAfterAcquisition ==
  enabled =>
    \A c \in Callers :
      (call[c].fn = "wait" /\ Done(c)) => Settled(call[c].kind)

\* positions of the general acquisition of integration-session.ts against
\* the calls issued so far
C8_Order ==
  LET g == acq["general"]
      r == registerCalls["general"]
      s == signInCalls["general"]
  IN  coord = "IS" =>
        /\ g.stage = "none" => (r = 0 /\ s = 0)
        /\ g.stage = "register" => (r = 1 /\ s = 0 /\ g.reg = "none")
        /\ g.stage = "signin" =>
              (r = 1 /\ s = 1 /\ g.reg \in {"created", "created-malformed", "conflict"})
        /\ (g.stage = "failed" /\ g.reg = "failed") =>
              (r = 1 /\ s = 0 /\ Done(g.owner) /\ ~outcome[g.owner].ok)
        /\ (g.stage = "failed" /\ g.reg # "failed") =>
              (r = 1 /\ s = 1 /\ g.reg \in {"created", "created-malformed", "conflict"})
        /\ g.stage = "ok" =>
              \/ r = 1 /\ s = 1 /\ g.reg \in {"created", "created-malformed", "conflict"}
              \/ r = 0 /\ s = 0 /\ g.reg = "none"

\* the general acquisition begins while no password is pre-set
C8_BeginsWithoutSecret ==
  /\ coord = "IS"
  /\ ~TruthyTok(env.INTEGRATION_TEST_PASSWORD)
  /\ promise["general"].state = "none"
  /\ promise'["general"].state # "none"

\* C8: in integration-session.ts, the general acquisition that begins while
\* no general password is pre-set issues one registration call first; the one
\* sign-in call follows only after the registration was answered with success
\* or 409; any other registration failure ends the acquisition with an error
\* and without a sign-in call.
C8_RegisterThenSignIn ==
  /\ []C8_Order
  /\ [][ C8_BeginsWithoutSecret
          => /\ acq'["general"].stage = "register"
             /\ registerCalls'["general"] = 1
             /\ signInCalls'["general"] = 0 ]_vars

\* registration was answered with 409, the sign-in followed and succeeded
C8_Witness ==
  /\ coord = "IS"
  /\ acq["general"].stage = "ok"
  /\ acq["general"].reg = "conflict"
  /\ registerCalls["general"] = 1
  /\ signInCalls["general"] = 1

C10_AdminNeverRegisters == registerCalls["admin"] = 0

\* an admin acquisition has ended in failure after its sign-in call
C10_Witness ==
  /\ acq["admin"].stage = "failed"
  /\ signInCalls["admin"] = 1
  /\ registerCalls["admin"] = 0

\* C11: in the coordinator of part_012, once the sign-in of the fixed general
\* account has been rejected, the coordinator has registered the account
\* once and signed in a second time, and never a third time.
C11_RegistersAfterRejectedSignIn ==
  (/\ coord = "P12"
   /\ promise["general"].state = "rejected"
   /\ promise["general"].err.msg = "sign-in rejected")
    => /\ registerCalls["general"] = 1
       /\ signInCalls["general"] = 2

\* the descriptor a call of getTestAccount returns in the current state
TestAccountNow ==
  IF coord = "IS" THEN getTestAccount(shared, account["general"], env)
  ELSE P12_getGlobalTestAccount(shared, env)

\* C12: while the general acquisition has not completed successfully (not
\* started, in flight, or failed), getTestAccount / getGlobalTestAccount
\* returns no descriptor that carries both an email and a password; for
\* both coordinators.
C12_DescriptorOnlyAfterSuccess ==
  acq["general"].stage # "ok" => ~HasEmailAndPassword(TestAccountNow)

Suspended(c) == pc[c] \in {"owner", "joined"}

\* C13 as stated: when every registration and sign-in call returns or
\* fails, every suspended call of an initialize or wait function
\* eventually settles; for both coordinators.
C13_EveryCallSettles == \A c \in Callers : Suspended(c) ~> Done(c)

\* C13, amended: when also every getMember call returns or fails, every
\* suspended call of an initialize or wait function eventually settles.
C13_EveryCallSettlesIfGetMemberReturns ==
  WF_vars(GetMemberReturns) => \A c \in Callers : Suspended(c) ~> Done(c)

\* a caller that joined an acquisition in flight has settled after the
\* acquisition failed
C13_Witness ==
  \E c \in Callers :
    /\ call[c].found = "pending"
    /\ Done(c)
    /\ acq[call[c].kind].stage = "failed"

\* a call has gone through the interceptor and was not stopped by an error
Passed == req # NoReq /\ ~sent.thrown

\* the three credential headers of a set of headers
CookieHeaders(headers) == <<headers.Cookie, headers.cookie, headers.COOKIE>>

\* the interceptor added no credential to the call
NothingAttached == CookieHeaders(sent.headers) = CookieHeaders(req.headers)

\* the headers the interceptor saw: none for a wrapped method called
\* without a config argument
SeenHeaders == IF req.hasCfg THEN req.headers ELSE AbsentHeaders

\* a call with no selector, no explicit credential header and no skip flag
PlainCall ==
  /\ req # NoReq
  /\ SeenHeaders.kind = "absent"
  /\ SeenHeaders.skip = "absent"
  /\ CookieHeaders(SeenHeaders) = <<NoStr, NoStr, NoStr>>

\* C14: with general the active identity, a plain call to a path that is
\* neither sign-in nor sign-out and that the interceptor passed on carries
\* Cookie: t (t normalised) when the general credential was last set to a
\* token t, and carries no credential header when it was last set to null,
\* whether or not GENERAL_MEMBER_SESSION_COOKIE is set.
C14_GeneralCredentialFollowsStore ==
  (/\ PlainCall
   /\ store.defaultSessionKind = "general"
   /\ req.url = MemberPath)
    => /\ ~sent.thrown
       /\ CookieHeaders(sent.headers) =
            IF store.general # NoStr
            THEN <<formatCookieHeader(store.general), NoStr, NoStr>>
            ELSE <<NoStr, NoStr, NoStr>>

\* C15: whatever the store, the active identity, the fallback values and
\* the selector of the call, a call whose URL contains /auth/signin leaves
\* the request interceptor and the method wrapper without an error and with
\* no credential header added.
C15_SignInNeverGetsCredential ==
  (req # NoReq /\ req.url # NoStr /\ Includes(req.url, SignInPath))
    => ~sent.thrown /\ NothingAttached

\* a sign-in call made through the request interceptor, without a credential
\* of its own, while a general token is stored and general is active
C15_Witness ==
  /\ PlainCall
  /\ req.via = "request"
  /\ req.url = <<"/", "v", "1">> \o SignInPath
  /\ store.general = IssuedCookie("general")
  /\ store.defaultSessionKind = "general"
  /\ Passed
  /\ NothingAttached

\* C16: a call that carries a credential header, under any casing of its
\* name and with any value, is passed on with its credential headers
\* unchanged: none overwritten, none added.
C16_ExplicitCredentialKept ==
  (Passed /\ CookieHeaders(SeenHeaders) # <<NoStr, NoStr, NoStr>>)
    => NothingAttached

\* C17: no call handed to the transport carries x-session-kind.
C17_SelectorStripped == Passed => sent.headers.kind = "absent"

\* a call with an invalid selector got a credential attached and lost the
\* selector
C17_Witness ==
  /\ Passed
  /\ SeenHeaders.kind = "bogus"
  /\ req.headers.Cookie = NoStr
  /\ sent.headers.Cookie # NoStr
  /\ sent.headers.kind = "absent"

\* the call with its skip flag taken away
WithoutSkipFlag(r) == [r EXCEPT !.headers.skip = "absent"]

\* C18: a call whose x-skip-auth is the boolean true or the string "true"
\* gets no credential attached; with any other value of the flag the call
\* leaves the interceptor as the same call without the flag would, the flag
\* itself aside.
C18_SkipFlag ==
  Passed =>
    IF SeenHeaders.skip \in {"bool:true", "str:true"}
    THEN NothingAttached
    ELSE sent = [Outgoing(store, env, WithoutSkipFlag(req))
                   EXCEPT !.headers.skip = SeenHeaders.skip]

\* a call with the string flag "true" that would otherwise have got the
\* stored general token was passed on without it
C18_Witness ==
  /\ Passed
  /\ SeenHeaders.skip = "str:true"
  /\ SeenHeaders.kind = "absent"
  /\ CookieHeaders(SeenHeaders) = <<NoStr, NoStr, NoStr>>
  /\ req.url = MemberPath
  /\ store.general = IssuedCookie("general")
  /\ store.defaultSessionKind = "general"
  /\ NothingAttached

\* C19: while the active identity is null, a call without a selector is
\* passed on with no credential attached, whatever is stored and whatever
\* the fallback values are.
C19_NullIdentityAttachesNothing ==
  (req # NoReq /\ store.defaultSessionKind = NULL /\ SeenHeaders.kind = "absent")
    => ~sent.thrown /\ NothingAttached

\* with the active identity null, both tokens stored and both fallback
\* values set, a plain call to /member went out without a credential
C19_Witness ==
  /\ PlainCall
  /\ store.defaultSessionKind = NULL
  /\ store.general = IssuedCookie("general")
  /\ store.admin = IssuedCookie("admin")
  /\ env.GENERAL_MEMBER_SESSION_COOKIE = PresetCookie
  /\ env.ADMIN_MEMBER_SESSION_COOKIE = PresetCookie
  /\ req.url = MemberPath
  /\ Passed
  /\ NothingAttached

\* C20: no call, whatever its shape and whatever the store holds, makes the
\* request interceptor or a wrapped method raise an error.
C20_NeverThrows == req # NoReq => ~sent.thrown

\* C21: in part_013 the stored credential changes only in a
\* setSessionCookie / clearSessionCookie call: no step in which a call
\* enters the interceptor or its answer comes back changes the store.
C21_OnlySettersWrite == [][(req # NoReq \/ req' # NoReq) => store' = store]_vars

\* the part of a header value before its first ';', without the blanks
\* around it
BeforeFirstSemicolon(v) ==
  LET i == IndexFrom(v, ";", 1)
  IN  Trim(IF i = 0 THEN v ELSE SubSeq(v, 1, i - 1))

\* the name=value parts of the values that have one, in order
NameValueParts(vals) ==
  SelectSeq([i \in 1..Len(vals) |-> BeforeFirstSemicolon(vals[i])],
            LAMBDA nv : nv # <<>>)

\* C22: each extraction helper returns the name=value parts of the header
\* values that have a non-empty one, in order, joined with "; ", and null
\* when there is none.
C22_ExtractionJoinsAll ==
  calc.fn # "none" =>
    calc.result = IF NameValueParts(calc.arg.vals) = <<>> THEN NoStr
                  ELSE Join(NameValueParts(calc.arg.vals), <<";", " ">>)

\* C23: a credential the interceptor attaches is a clean name=value pair:
\* every token of the model holds one pair, so the attached value holds no
\* ';' and no attribute after it.
C23_AttachedCredentialIsClean ==
  (Passed /\ ~NothingAttached) => ~Includes(sent.headers.Cookie, <<";">>)

\* C24: with the method wrapper installed, once or several times, a wrapped
\* get/post/put/delete/patch call reaches the underlying method exactly once,
\* with the caller's URL and, for post/put/patch, the caller's body in second
\* position, whatever the store holds; what the underlying method answers is
\* what the caller gets.
C24_TransportInvokedOnce ==
  (req # NoReq /\ req.via \in WrappedMethods /\ transport.layers >= 1) =>
     /\ Len(transport.received) = 1
     /\ transport.received[1].url = req.url
     /\ (req.via \in {"post", "put", "patch"} /\ req.data # "absent") =>
           transport.received[1].data = req.data
     /\ transport.answer # "none" => transport.returned = transport.answer

\* C30: installing is idempotent: after any number of setupCookieAuth calls
\* on the instance exactly one request interceptor is registered; after any
\* number of wrap runs each method and create carry exactly one proxy; so a
\* call through an installed path takes the credential decision once.
C30_InstalledOnce ==
  /\ transport.setups >= 1 => transport.interceptors = 1
  /\ transport.wraps >= 1 => (transport.layers = 1 /\ transport.createLayers = 1)
  /\ (req # NoReq /\ req.via = "request" /\ transport.setups >= 1) =>
        transport.decisions = 1
  /\ (req # NoReq /\ req.via \in WrappedMethods /\ transport.wraps >= 1) =>
        transport.decisions = 1

\* installed more than once on both paths, and a call went through a proxy
C30_Witness ==
  /\ transport.setups >= 2
  /\ transport.wraps >= 2
  /\ transport.interceptors = 1
  /\ transport.layers = 1
  /\ req # NoReq
  /\ req.via \in WrappedMethods
  /\ transport.decisions = 1

\* C25: the request interceptor and the method wrapper decide alike: for the
\* call in flight and the store as it is, both hand on the same outcome and
\* the same outgoing headers, /auth/signout included.
C25_InterceptorEqualsWrapper ==
  req # NoReq =>
     LET hdrs == IF req.hasCfg THEN req.headers ELSE AbsentHeaders
     IN  RequestInterceptor(store, env, req.url, hdrs) =
           buildCookieConfig(store, env, req.url, hdrs)

\* C26: a credential the interceptor attaches is the normalized token, or
\* else the fallback, of the class the call resolves to: the selector when it
\* is 'general' or 'admin', the active identity otherwise; a call whose class
\* has neither token nor fallback is handed on without a credential and never
\* gets the other class's.
C26_CredentialOfResolvedClass ==
  Passed =>
     LET k == IF SeenHeaders.present /\ SeenHeaders.kind \in {"general", "admin"}
              THEN SeenHeaders.kind ELSE store.defaultSessionKind
         tok == IF k = "admin"
                THEN IF TruthyStr(store.admin) THEN store.admin
                     ELSE env.ADMIN_MEMBER_SESSION_COOKIE
                ELSE IF k = "general"
                THEN IF TruthyStr(store.general) THEN store.general
                     ELSE env.GENERAL_MEMBER_SESSION_COOKIE
                ELSE NoStr
     IN  /\ ~NothingAttached =>
              (TruthyStr(tok) /\ sent.headers.Cookie = formatCookieHeader(tok))
         /\ ~TruthyStr(tok) => NothingAttached

\* a call selecting admin while only the general class has a credential
C26_Witness ==
  /\ Passed
  /\ req.url = MemberPath
  /\ SeenHeaders.present
  /\ SeenHeaders.kind = "admin"
  /\ store.defaultSessionKind = "general"
  /\ TruthyStr(store.general)
  /\ ~TruthyStr(store.admin)
  /\ ~TruthyStr(env.ADMIN_MEMBER_SESSION_COOKIE)
  /\ sent.headers.Cookie = NoStr

\* C27: a step that gives one class a credential leaves the other class's
\* credential and the active identity as they were; so after
\* setCurrentSession('admin') or setCurrentSession(null), setting the general
\* credential does not switch the active identity.
C27_SettingOneClassLeavesTheRest ==
  [][ /\ (store'.general # store.general /\ TruthyStr(store'.general)) =>
            /\ store'.admin = store.admin
            /\ store'.defaultSessionKind = store.defaultSessionKind
      /\ (store'.admin # store.admin /\ TruthyStr(store'.admin)) =>
            /\ store'.general = store.general
            /\ store'.defaultSessionKind = store.defaultSessionKind ]_vars

C29_SetupEndsGeneral ==
  setup \in {"done", "failed"} => store.defaultSessionKind = "general"

====
